---- MODULE Spec2Model ----
(***************************************************************************)
(* AI Rank Tracker: the tracking worker (worker/index.ts), the tracking    *)
(* engine (services/trackingEngine.ts), the alert writer (routes/alerts.ts)*)
(* the sliding-window rate limiter of the provider adapters               *)
(* (services/gemini.ts, perplexity.ts, openai.ts), the tracking routes     *)
(* POST /schedule and POST /quick-test, the daily timer of the worker and  *)
(* the shutdown of its process, the project and competitor routes          *)
(* (routes/projects.ts, routes/competitors.ts), trackProject, the scoring  *)
(* service (services/scoring.ts), the citation lists of the four provider  *)
(* adapters, generateSummary, PATCH /api-integrations (routes/settings.ts) *)
(* and the alert routes (routes/alerts.ts).                                *)
(*                                                                         *)
(* Nullable columns and optional values are tuples: <<>> is null/undefined *)
(* and <<v>> is the value v.  Integer columns that may be null use Null.   *)
(***************************************************************************)
EXTENDS Integers, Sequences, FiniteSets, TLC

\* ------------------------------------------------------------------------
\* Bounds of the model
\* ------------------------------------------------------------------------
MaxDeliveries == 2     \* deliveries of tracking jobs handed out by the broker
MaxCallers == 4        \* query() calls made on one adapter
MaxTicks == 6          \* ticks of the limiter's clock
TickMs == 20000        \* milliseconds per tick of the limiter's clock
RateLimitPerMinute == 2  \* config.rateLimitPerMinute of the adapter
MaxScheduleCalls == 2  \* calls of POST /schedule
FirstStartMs == 7080000  \* earliest start of the worker process: 01:58:00
StartStepMs == 500     \* distance between the start times considered
NumStarts == 240       \* number of start times considered
MaxTimerDelayMs == 500 \* longest delay of a timer callback
WatchEndMs == 7380000  \* the timer is followed until 02:03:00

\* checkRateLimit: the width of the sliding window, in milliseconds
WindowMs == 60000

\* startWorker: the period of the timer of the daily tracking and the hour
\* and minute its callback waits for
IntervalMs == 60000
DailyHour == 2
DailyMinute == 0

\* ------------------------------------------------------------------------
\* Values
\* ------------------------------------------------------------------------
Null == -1
\* A timestamp column that has been set by NOW(); the time itself is kept
\* only where rows are ordered by it (citations.tracked_at).
Stamped == 0
None == <<>>
Some(v) == <<v>>

\* The invocations of processTrackingJob that run at once: two of the five
\* the worker allows (concurrency: 5).
Slots == {1, 2}
JobIds == {1}
KeywordId == 1
ProjectId == 1
\* The id 'test' of the mock keyword and project of POST /quick-test: the
\* only id in the model that is not a UUID.
TestId == 0
IsUuid(id) == id # TestId

Platforms == {"gemini", "perplexity"}
\* Platforms whose API key is set in the environment of the worker process.
Configured == {"gemini"}

\* Domains are sequences of lower-case labels.
PrimaryDomain == <<"acme", "com">>
WwwDomain == <<"www", "acme", "com">>
SubDomain == <<"blog", "acme", "com">>
OtherDomain == <<"other", "com">>
\* A host of one label, as in http://acme/pricing
IntranetDomain == <<"acme">>
\* POST /quick-test: domain || 'example.com'
ExampleDomain == <<"example", "com">>

\* Positions an adapter can report: index + 1, or the number of an inline
\* [n] reference, which may be 0.
Positions == {0, 2, 5}

\* Messages of the errors the upstream client can throw (Error.message).
UpstreamErrors == {"", "rate_limited"}

\* ------------------------------------------------------------------------
\* trackingEngine.ts: pure helpers
\* ------------------------------------------------------------------------
\* normalize(): toLowerCase().replace(/^www\./, '').trim()
Normalize(d) ==
  IF Len(d) > 0 /\ d[1] = "www" THEN Tail(d) ELSE d

IsSuffix(s, t) ==
  /\ Len(s) <= Len(t)
  /\ \A i \in 1..Len(s) : s[i] = t[Len(t) - Len(s) + i]

DomainMatches(citationDomain, targetDomain) ==
  LET nc == Normalize(citationDomain)
      nt == Normalize(targetDomain)
  IN  \/ nc = nt
      \/ (Len(nc) > Len(nt) /\ IsSuffix(nt, nc))

IsDomainMentioned(response, domain) ==
  \E i \in 1..Len(response.citations) :
     DomainMatches(response.citations[i].domain, domain)

\* Array.prototype.find: the first matching element, or undefined.
FindCitation(response, domain) ==
  LET idx == {i \in 1..Len(response.citations) :
                DomainMatches(response.citations[i].domain, domain)}
  IN  IF idx = {} THEN None
      ELSE Some(response.citations[CHOOSE i \in idx : \A k \in idx : i <= k])

\* JavaScript truthiness of a string / of an optional number.
TruthyStr(s) == s # ""
TruthyNum(n) == n # Null /\ n # 0

\* analyzeSentiment.  A text is a sequence of tokens: words, and the
\* punctuation marks that end a sentence.  A domain written out in a text
\* is its labels with a "." between them.
PositiveWords == {"best", "excellent", "top", "recommended", "leading",
                  "outstanding", "superior"}
NegativeWords == {"worst", "poor", "avoid", "bad", "terrible", "disappointing"}

\* The characters of the class [.!?] that text.split(/[.!?]+/) cuts at.
SentenceEnds == {".", "!", "?"}

\* String.prototype.toLowerCase on the tokens that are not lower-case.
LowerCase(token) ==
  IF token = "Acme" THEN "acme" ELSE IF token = "Com" THEN "com" ELSE token

ToLowerCase(text) == [i \in 1..Len(text) |-> LowerCase(text[i])]

RECURSIVE DomainString(_)
DomainString(domain) ==
  IF Len(domain) = 0 THEN <<>>
  ELSE IF Len(domain) = 1 THEN <<domain[1]>>
  ELSE <<domain[1], ".">> \o DomainString(Tail(domain))

\* text.split(/[.!?]+/): the non-empty pieces between the runs of
\* sentence ends (an empty piece includes no domain and no word).
SplitSentences(text) ==
  {SubSeq(text, i, j) : <<i, j>> \in
     {ij \in (1..Len(text)) \X (1..Len(text)) :
        /\ ij[1] <= ij[2]
        /\ \A k \in ij[1]..ij[2] : text[k] \notin SentenceEnds
        /\ (ij[1] = 1 \/ text[ij[1] - 1] \in SentenceEnds)
        /\ (ij[2] = Len(text) \/ text[ij[2] + 1] \in SentenceEnds)}}

\* String.prototype.includes
Includes(s, t) ==
  \E k \in 0..(Len(s) - Len(t)) : \A i \in 1..Len(t) : s[k + i] = t[i]

AnalyzeSentiment(text, domain) ==
  LET sentences == SplitSentences(text)
      relevantSentences ==
        {s \in sentences :
           Includes(ToLowerCase(s), ToLowerCase(DomainString(domain)))}
      relevantText == {LowerCase(s[i]) : <<s, i>> \in
                         {si \in relevantSentences \X (1..Len(text)) :
                            si[2] <= Len(si[1])}}
      positiveCount == Cardinality({w \in PositiveWords : w \in relevantText})
      negativeCount == Cardinality({w \in NegativeWords : w \in relevantText})
  IN  IF relevantSentences = {} THEN "neutral"
      ELSE IF positiveCount > negativeCount THEN "positive"
      ELSE IF negativeCount > positiveCount THEN "negative"
      ELSE "neutral"


\* ------------------------------------------------------------------------
\* State
\* ------------------------------------------------------------------------
VARIABLES
  jobs,          \* tracking_jobs rows, by id
  keywords,      \* ids of the rows of the keywords table
  lastTrackedAt, \* keywords.last_tracked_at of KeywordId
  citations,     \* rows of the citations table
  alerts,        \* rows of the alerts table
  alertLog,      \* the createAlert calls made so far, in order
  clock,         \* wall clock of the worker: Date.now() / NOW()
  deliveries,    \* deliveries handed out by the broker so far
  slot,          \* the invocations of processTrackingJob in flight
  requestTimestamps, \* GeminiService.requestTimestamps
  now,           \* clock of the limiter, in ticks
  caller,        \* the query() calls on the adapter
  started,       \* the times at which upstream calls were started
  scheduleLog,   \* the bodies of the POST /schedule requests served
  quickTest,     \* the outcome of the last POST /quick-test request
  timerAt,       \* time of day (ms) of the last callback of the daily timer
  dailyRuns,     \* number of times runDailyTracking was started
  projects,      \* rows of the projects table, by id
  competitorReq, \* the competitor add/remove requests in flight
  scoreRun,      \* the run of calculateVisibilityScore
  dailyMetrics,  \* rows of the daily_metrics table, in insertion order
  generatedFrom, \* per date, the citations generateDailyMetrics last read
  projectRun,    \* what the last trackProject returned and persisted
  sentimentOut,  \* the last call of analyzeSentiment and its result
  adapterOut,    \* the last answer an adapter parsed and its citation list
  summaryOut,    \* the last call of generateSummary and its result
  storedScore,   \* the row storeVisibilityScore last inserted
  competitorRes, \* the last answer to each competitor add/remove request
  apiIntegrations, \* rows of the api_integrations table, by organization
  settingsRes,   \* the last PATCH /api-integrations request and its answer
  alertRes       \* the last request to the alert routes and its answer

workerVars == <<jobs, keywords, lastTrackedAt, citations, alerts, alertLog,
                clock, deliveries, slot>>
limiterVars == <<requestTimestamps, now, caller, started>>
apiVars == <<scheduleLog, quickTest>>
timerVars == <<timerAt, dailyRuns>>
serviceVars == <<projects, competitorReq, scoreRun, dailyMetrics,
                 generatedFrom, projectRun, sentimentOut>>
routeVars == <<adapterOut, summaryOut, storedScore, competitorRes,
               apiIntegrations, settingsRes, alertRes>>
vars == <<jobs, keywords, lastTrackedAt, citations, alerts, alertLog, clock,
          deliveries, slot, requestTimestamps, now, caller, started,
          scheduleLog, quickTest, timerAt, dailyRuns, projects,
          competitorReq, scoreRun, dailyMetrics, generatedFrom, projectRun,
          sentimentOut, adapterOut, summaryOut, storedScore, competitorRes,
          apiIntegrations, settingsRes, alertRes>>

\* ------------------------------------------------------------------------
\* Rows and records
\* ------------------------------------------------------------------------
\* schema.sql tracking_jobs: status defaults to pending, retry_count to 0,
\* scheduled_at to NOW().
NewJob(platform) ==
  [keyword_id |-> KeywordId, platform |-> platform, status |-> "pending",
   scheduled_at |-> Stamped, started_at |-> Null,
   completed_at |-> Null, citation_found |-> None, result_data |-> None,
   error_message |-> None, retry_count |-> 0]

\* The row of a job that ON DELETE CASCADE removed: no UPDATE matches it.
DeletedJob(platform) ==
  [NewJob(platform) EXCEPT !.status = "deleted"]

\* An AICitation of an adapter: the domain of its URL, its position and
\* its snippet.
Cit(domain, position) ==
  [domain |-> domain, position |-> position, snippet |-> "snippet"]

\* Citation lists a provider answer can carry, after the adapter has
\* dropped repeated URLs: no citation, another site only, the project's
\* site alone, the project's site after another one, two pages of the
\* project's sites.
Answers ==
  {<<>>, <<Cit(OtherDomain, 1)>>}
    \cup {<<Cit(WwwDomain, p)>> : p \in Positions}
    \cup {<<Cit(OtherDomain, 1), Cit(SubDomain, 2)>>,
          <<Cit(SubDomain, 3), Cit(WwwDomain, 2)>>}

\* Response texts: "A guide." and "Acme is poor, avoid."
PlainText == <<"a", "guide", ".">>
NegativeText == <<"Acme", "is", "poor", "avoid", ".">>

FailResult(error, platform) ==
  [success |-> FALSE, citation |-> None, error |-> Some(error),
   platform |-> platform]

IdleSlot ==
  [pc |-> "idle", job |-> Null, adapter |-> "none", results |-> <<>>,
   stored |-> FALSE, previous |-> None, queried |-> FALSE, thrown |-> None]

\* ------------------------------------------------------------------------
\* routes/alerts.ts createAlert and the alerts table
\* ------------------------------------------------------------------------
Organizations == {"org-1", "org-2"}

\* alerts.organization_id is UUID NOT NULL REFERENCES organizations(id).
AlertInsertAccepted(data) == data.organization_id \in Organizations

\* The id the INSERT gives a new row: one no row of the table has (the
\* least such number; an id names a row only while the row is there).
NewAlertId(table) ==
  CHOOSE n \in 1..(Len(table) + 1) :
    /\ \A k \in 1..Len(table) : table[k].id # n
    /\ \A m \in 1..(n - 1) : \E k \in 1..Len(table) : table[k].id = m

\* The INSERT of createAlert; an error of the INSERT is caught and logged.
\* The row takes the defaults of id, is_read and read_by.
CreateAlert(table, data) ==
  IF AlertInsertAccepted(data)
    THEN Append(table, data @@ [id |-> NewAlertId(table),
                                is_read |-> FALSE, read_by |-> None])
  ELSE table

\* x?.toString() of an optional number (ToString of TLC gives the decimal
\* digits of an integer, as Number.prototype.toString does).
OptToString(n) == IF n = Null THEN None ELSE Some(ToString(n))

\* (positionChange / previous) * 100, in hundredths of a percent, rounded
\* half away from zero (the DECIMAL(6,2) of alerts.change_percent).
RoundDiv(a, b) ==
  IF a >= 0 THEN (2 * a + b) \div (2 * b) ELSE -((2 * (-a) + b) \div (2 * b))

ChangePercent(positionChange, previousPosition) ==
  RoundDiv(positionChange * 10000, previousPosition)

AlertData(type, severity, platform, prev, cur, pct) ==
  [project_id |-> ProjectId, organization_id |-> "", alert_type |-> type,
   severity |-> severity, keyword_id |-> KeywordId, platform |-> platform,
   previous_value |-> prev, current_value |-> cur, change_percent |-> pct]


\* ------------------------------------------------------------------------
\* worker/index.ts checkForAlerts
\* ------------------------------------------------------------------------
\* SELECT ... FROM citations WHERE keyword_id = $1 AND platform = $2
\* ORDER BY tracked_at DESC OFFSET 1 LIMIT 1; rows[0] of the answer.
PreviousCitation(table, keywordId, platform) ==
  LET rows == {c \in table : c.keyword_id = keywordId /\ c.platform = platform}
      second == {c \in rows :
                   Cardinality({d \in rows : d.tracked_at > c.tracked_at}) = 1}
  IN  IF second = {} THEN None ELSE Some(CHOOSE c \in second : TRUE)

Abs(n) == IF n < 0 THEN -n ELSE n

\* AlertFor with the lost_citation alert carrying the position of the
\* current citation instead of the previous one.
AlertFor_LostCarriesCurrent(previous, current, platform) ==
  LET prevMentioned == previous # None /\ previous[1].domain_mentioned
      curMentioned == current # None /\ current[1].domain_mentioned
      prevPos == IF previous = None THEN Null ELSE previous[1].citation_position
      curPos == IF current = None THEN Null ELSE current[1].citation_position
      positionChange == prevPos - curPos
  IN  IF previous = None /\ curMentioned
        THEN Some(AlertData("new_citation", "info", platform, None, None, None))
      ELSE IF prevMentioned /\ ~curMentioned
        THEN Some(AlertData("lost_citation", "warning", platform,
                            OptToString(curPos), None, None))
      ELSE IF TruthyNum(prevPos) /\ TruthyNum(curPos)
        THEN IF Abs(positionChange) >= 2
               THEN Some(AlertData("position_change",
                                   IF positionChange > 0 THEN "info"
                                                         ELSE "warning",
                                   platform,
                                   Some(ToString(prevPos)),
                                   Some(ToString(curPos)),
                                   Some(ChangePercent(positionChange, prevPos))))
               ELSE None
      ELSE None

\* The if / else-if chain of checkForAlerts: the argument of the createAlert
\* call it makes, or None when it makes none.  previous is rows[0] and
\* current is result.citation, both optional.
AlertFor(previous, current, platform) ==
  LET prevMentioned == previous # None /\ previous[1].domain_mentioned
      curMentioned == current # None /\ current[1].domain_mentioned
      prevPos == IF previous = None THEN Null ELSE previous[1].citation_position
      curPos == IF current = None THEN Null ELSE current[1].citation_position
      positionChange == prevPos - curPos
  IN  IF previous = None /\ curMentioned
        THEN Some(AlertData("new_citation", "info", platform, None, None, None))
      ELSE IF prevMentioned /\ ~curMentioned
        THEN Some(AlertData("lost_citation", "warning", platform,
                            OptToString(prevPos), None, None))
      ELSE IF TruthyNum(prevPos) /\ TruthyNum(curPos)
        THEN IF Abs(positionChange) >= 2
               THEN Some(AlertData("position_change",
                                   IF positionChange > 0 THEN "info"
                                                         ELSE "warning",
                                   platform,
                                   Some(ToString(prevPos)),
                                   Some(ToString(curPos)),
                                   Some(ChangePercent(positionChange, prevPos))))
               ELSE None
      ELSE None

\* ------------------------------------------------------------------------
\* trackingEngine.ts trackOnPlatform
\* ------------------------------------------------------------------------
\* What the adapter's query() returns: its catch block turns a thrown error
\* into a response with error = error.message and no citations.
ErrorResponse(message) ==
  [error |-> Some(message), citations |-> <<>>, response_text |-> <<>>]
TextResponse(cits, text) ==
  [error |-> None, citations |-> cits, response_text |-> text]
AnswerResponse(cits) == TextResponse(cits, PlainText)

Responses ==
  {ErrorResponse(m) : m \in UpstreamErrors}
    \cup {AnswerResponse(a) : a \in Answers}
    \cup {TextResponse(<<Cit(IntranetDomain, 2)>>, NegativeText)}

\* if (response.error)
ResponseHasError(response) ==
  response.error # None /\ TruthyStr(response.error[1])

\* response.citations.filter(c => !this.domainMatches(c.domain, ...))
CompetitorCitations(response, domain) ==
  SelectSeq(response.citations, LAMBDA c : ~DomainMatches(c.domain, domain))

\* TrackResult with yourCitation taken from the first citation of the
\* answer, whatever its domain.
TrackResult_FirstCitation(response, keywordId, domain, platform, trackedAt) ==
  IF ResponseHasError(response)
    THEN FailResult(response.error[1], platform)
    ELSE LET domainMentioned == IsDomainMentioned(response, domain)
             yourCitation == IF response.citations # <<>>
                               THEN Some(response.citations[1])
                               ELSE None
         IN  [success |-> TRUE,
              citation |-> Some([keyword_id |-> keywordId,
                                 platform |-> platform,
                                 tracked_at |-> trackedAt,
                                 domain_mentioned |-> domainMentioned,
                                 citation_position |->
                                   IF yourCitation = None THEN Null
                                   ELSE yourCitation[1].position,
                                 citation_context |->
                                   IF yourCitation = None THEN None
                                   ELSE Some(yourCitation[1].snippet),
                                 sentiment |->
                                   AnalyzeSentiment(response.response_text,
                                                    domain),
                                 competitor_citations |->
                                   CompetitorCitations(response, domain),
                                 total_sources_cited |->
                                   Len(response.citations)]),
              error |-> None,
              platform |-> platform]

\* trackOnPlatform after the adapter has answered: the TrackResult built
\* from the response for a keyword of a project with the given primary
\* domain, at time trackedAt.
TrackResult(response, keywordId, domain, platform, trackedAt) ==
  IF ResponseHasError(response)
    THEN FailResult(response.error[1], platform)
    ELSE LET domainMentioned == IsDomainMentioned(response, domain)
             yourCitation == IF domainMentioned
                               THEN FindCitation(response, domain)
                               ELSE None
         IN  [success |-> TRUE,
              citation |-> Some([keyword_id |-> keywordId,
                                 platform |-> platform,
                                 tracked_at |-> trackedAt,
                                 domain_mentioned |-> domainMentioned,
                                 citation_position |->
                                   IF yourCitation = None THEN Null
                                   ELSE yourCitation[1].position,
                                 citation_context |->
                                   IF yourCitation = None THEN None
                                   ELSE Some(yourCitation[1].snippet),
                                 sentiment |->
                                   AnalyzeSentiment(response.response_text,
                                                    domain),
                                 competitor_citations |->
                                   CompetitorCitations(response, domain),
                                 total_sources_cited |->
                                   Len(response.citations)]),
              error |-> None,
              platform |-> platform]

\* The TrackResult of the tracked keyword of the project.
TrackResultOf(response, platform, trackedAt) ==
  TrackResult(response, KeywordId, projects[ProjectId].primary_domain,
              platform, trackedAt)


\* INSERT INTO citations accepted with any keyword_id.
CitationInsertAccepted_AnyKeyword(row) == TRUE

\* citations.keyword_id is UUID NOT NULL REFERENCES keywords(id): the INSERT
\* of storeCitation is rejected for any other keyword_id.
CitationInsertAccepted(row) ==
  IsUuid(row.keyword_id) /\ row.keyword_id \in keywords

\* keywords.id is a UUID: UPDATE keywords ... WHERE id = $1 is an error when
\* $1 is not one.
UpdateTrackingTimeAccepted(keywordId) == IsUuid(keywordId)

\* ------------------------------------------------------------------------
\* worker/index.ts processTrackingJob, one action per awaited step
\* ------------------------------------------------------------------------
JobOf(w) == slot[w].job
PlatformOf(w) == jobs[slot[w].job].platform

\* throw inside the try block of processTrackingJob
Throw(w, message) ==
  slot' = [slot EXCEPT ![w].pc = "catch", ![w].thrown = Some(message)]

\* processTrackingJob returns or rethrows: the invocation is over and free
\* for the next delivery.
End(w) ==
  slot' = [slot EXCEPT ![w] = IdleSlot]

\* The broker hands a job to a free invocation (the invocations are
\* interchangeable: it takes the first free one); delivery is at least once,
\* so a job may be handed out again whatever its row says.
Deliver(w, j) ==
  /\ slot[w].pc = "idle"
  /\ \A v \in Slots : slot[v].pc = "idle" => w <= v
  /\ deliveries < MaxDeliveries
  /\ deliveries' = deliveries + 1
  /\ slot' = [slot EXCEPT ![w] = [IdleSlot EXCEPT !.pc = "markProcessing",
                                                  !.job = j]]
  /\ UNCHANGED <<jobs, keywords, lastTrackedAt, citations, alerts, alertLog,
                 clock>>
  /\ UNCHANGED <<limiterVars, apiVars, timerVars, serviceVars, routeVars>>

\* UPDATE tracking_jobs SET status = 'processing', started_at = NOW()
\* WHERE id = $1
MarkProcessing(w) ==
  /\ slot[w].pc = "markProcessing"
  /\ jobs' = IF jobs[JobOf(w)].status = "deleted" THEN jobs
             ELSE [jobs EXCEPT ![JobOf(w)].status = "processing",
                               ![JobOf(w)].started_at = Stamped]
  /\ slot' = [slot EXCEPT ![w].pc = "loadKeyword"]
  /\ UNCHANGED <<keywords, lastTrackedAt, citations, alerts, alertLog, clock,
                 deliveries>>
  /\ UNCHANGED <<limiterVars, apiVars, timerVars, serviceVars, routeVars>>

\* SELECT k.*, ... FROM keywords k JOIN projects p ... WHERE k.id = $1
LoadKeyword(w) ==
  /\ slot[w].pc = "loadKeyword"
  /\ IF KeywordId \in keywords
       THEN slot' = [slot EXCEPT ![w].pc = "track"]
       ELSE Throw(w, "Keyword not found")
  /\ UNCHANGED <<jobs, keywords, lastTrackedAt, citations, alerts, alertLog,
                 clock, deliveries>>
  /\ UNCHANGED <<limiterVars, apiVars, timerVars, serviceVars, routeVars>>

\* How the adapter call of an attempt ended: the provider has no adapter,
\* the upstream call threw inside query(), or query() returned an answer.
AdapterOutcome(platform, response) ==
  IF platform \notin Configured THEN "not_configured"
  ELSE IF response.error # None THEN "error"
  ELSE "answer"

\* trackKeyword, loop body: result = await trackOnPlatform(...);
\* results.push(result)
TrackOnPlatform(w) ==
  /\ slot[w].pc = "track"
  /\ \E response \in Responses :
       LET platform == PlatformOf(w)
           result == IF platform \notin Configured
                       THEN FailResult("not configured", platform)
                       ELSE TrackResultOf(response, platform, clock)
       IN  /\ slot' = [slot EXCEPT ![w].adapter =
                                     AdapterOutcome(platform, response),
                                   ![w].results = Append(@, result),
                                   ![w].pc = IF result.success
                                                /\ result.citation # None
                                               THEN "store" ELSE "updateTime"]
           /\ clock' = IF result.success THEN clock + 1 ELSE clock
  /\ UNCHANGED <<jobs, keywords, lastTrackedAt, citations, alerts, alertLog,
                 deliveries>>
  /\ UNCHANGED <<limiterVars, apiVars, timerVars, serviceVars, routeVars>>

\* trackKeyword: await this.storeCitation(result.citation); an error of the
\* INSERT lands in the catch of the loop body, which pushes a second result.
StoreCitation(w) ==
  /\ slot[w].pc = "store"
  /\ \/ /\ CitationInsertAccepted(slot[w].results[1].citation[1])
        /\ citations' = citations \cup {slot[w].results[1].citation[1]}
        /\ slot' = [slot EXCEPT ![w].stored = TRUE, ![w].pc = "updateTime"]
     \/ /\ citations' = citations
        /\ slot' = [slot EXCEPT
                      ![w].results = Append(@, FailResult("store error",
                                                          PlatformOf(w))),
                      ![w].pc = "updateTime"]
  /\ UNCHANGED <<jobs, keywords, lastTrackedAt, alerts, alertLog, clock,
                 deliveries>>
  /\ UNCHANGED <<limiterVars, apiVars, timerVars, serviceVars, routeVars>>

\* trackKeyword: await this.updateKeywordTrackingTime(keyword.id); return
UpdateKeywordTrackingTime(w) ==
  /\ slot[w].pc = "updateTime"
  /\ \/ /\ lastTrackedAt' = IF KeywordId \in keywords THEN clock
                            ELSE lastTrackedAt
        /\ slot' = [slot EXCEPT ![w].pc = "markCompleted"]
     \/ /\ lastTrackedAt' = lastTrackedAt
        /\ Throw(w, "store error")
  /\ UNCHANGED <<jobs, keywords, citations, alerts, alertLog, clock,
                 deliveries>>
  /\ UNCHANGED <<limiterVars, apiVars, timerVars, serviceVars, routeVars>>

\* const result = results[0]; UPDATE tracking_jobs SET status = 'completed',
\* completed_at = NOW(), citation_found = $2, result_data = $3 WHERE id = $1
MarkCompleted(w) ==
  /\ slot[w].pc = "markCompleted"
  /\ LET result == slot[w].results[1]
         found == IF result.citation = None THEN FALSE
                  ELSE result.citation[1].domain_mentioned
     IN  jobs' = IF jobs[JobOf(w)].status = "deleted" THEN jobs
                 ELSE [jobs EXCEPT ![JobOf(w)].status = "completed",
                                   ![JobOf(w)].completed_at = Stamped,
                                   ![JobOf(w)].citation_found = Some(found),
                                   ![JobOf(w)].result_data = Some(result)]
  /\ slot' = [slot EXCEPT ![w].pc = "queryPrevious"]
  /\ UNCHANGED <<keywords, lastTrackedAt, citations, alerts, alertLog, clock,
                 deliveries>>
  /\ UNCHANGED <<limiterVars, apiVars, timerVars, serviceVars, routeVars>>

\* QueryPrevious with an error of the query escaping checkForAlerts into
\* the catch block of processTrackingJob.
QueryPrevious_ErrorEscapes(w) ==
  /\ slot[w].pc = "queryPrevious"
  /\ \/ slot' = [slot EXCEPT
                   ![w].previous = PreviousCitation(citations, KeywordId,
                                                    PlatformOf(w)),
                   ![w].queried = TRUE,
                   ![w].pc = "emitAlert"]
     \/ Throw(w, "store error")
  /\ UNCHANGED <<jobs, keywords, lastTrackedAt, citations, alerts, alertLog,
                 clock, deliveries>>
  /\ UNCHANGED <<limiterVars, apiVars, timerVars, serviceVars, routeVars>>

\* checkForAlerts: the SELECT of the previous citation; an error of the
\* query is caught by checkForAlerts and logged.
QueryPrevious(w) ==
  /\ slot[w].pc = "queryPrevious"
  /\ \/ /\ slot' = [slot EXCEPT
                      ![w].previous = PreviousCitation(citations, KeywordId,
                                                       PlatformOf(w)),
                      ![w].queried = TRUE,
                      ![w].pc = "emitAlert"]
     \/ End(w)
  /\ UNCHANGED <<jobs, keywords, lastTrackedAt, citations, alerts, alertLog,
                 clock, deliveries>>
  /\ UNCHANGED <<limiterVars, apiVars, timerVars, serviceVars, routeVars>>

\* checkForAlerts: the if / else-if chain and its createAlert call.
EmitAlert(w) ==
  /\ slot[w].pc = "emitAlert"
  /\ LET data == AlertFor(slot[w].previous, slot[w].results[1].citation,
                          PlatformOf(w))
     IN  /\ End(w)
         /\ alertLog' = IF data = None THEN alertLog
                        ELSE Append(alertLog, data[1])
         /\ alerts' = IF data = None THEN alerts
                      ELSE CreateAlert(alerts, data[1])
  /\ UNCHANGED <<jobs, keywords, lastTrackedAt, citations, clock, deliveries>>
  /\ UNCHANGED <<limiterVars, apiVars, timerVars, serviceVars, routeVars>>

\* catch (error): UPDATE tracking_jobs SET status = 'failed',
\* error_message = $2, retry_count = retry_count + 1 WHERE id = $1; throw
MarkFailed(w) ==
  /\ slot[w].pc = "catch"
  /\ jobs' = IF jobs[JobOf(w)].status = "deleted" THEN jobs
             ELSE [jobs EXCEPT ![JobOf(w)].status = "failed",
                               ![JobOf(w)].error_message = slot[w].thrown,
                               ![JobOf(w)].retry_count = @ + 1]
  /\ End(w)
  /\ UNCHANGED <<keywords, lastTrackedAt, citations, alerts, alertLog, clock,
                 deliveries>>
  /\ UNCHANGED <<limiterVars, apiVars, timerVars, serviceVars, routeVars>>

\* DELETE FROM keywords ...: tracking_jobs.keyword_id and
\* citations.keyword_id are ON DELETE CASCADE; alerts.keyword_id is a plain
\* reference, so a keyword with alerts cannot be deleted.
DeleteKeyword ==
  /\ KeywordId \in keywords
  /\ \A i \in 1..Len(alerts) : alerts[i].keyword_id # KeywordId
  /\ keywords' = keywords \ {KeywordId}
  /\ jobs' = [j \in JobIds |-> DeletedJob(jobs[j].platform)]
  /\ citations' = {c \in citations : c.keyword_id # KeywordId}
  /\ lastTrackedAt' = Null
  /\ UNCHANGED <<alerts, alertLog, clock, deliveries, slot>>
  /\ UNCHANGED <<limiterVars, apiVars, timerVars, serviceVars, routeVars>>


\* ------------------------------------------------------------------------
\* services/gemini.ts (perplexity.ts, openai.ts alike): checkRateLimit
\* ------------------------------------------------------------------------
Callers == 1..MaxCallers

IdleCaller == [pc |-> "idle", now |-> 0, wake |-> 0]

\* this.requestTimestamps.filter(t => t > oneMinuteAgo)
FilterRecent(ts, oneMinuteAgo) == SelectSeq(ts, LAMBDA t : t > oneMinuteAgo)

\* query() calls checkRateLimit, which runs up to its first await: it
\* prunes the timestamps and either records the call and returns, so that
\* the upstream call starts, or goes to sleep.
EnterRateLimit(c) ==
  /\ caller[c].pc = "idle"
  /\ LET pruned == FilterRecent(requestTimestamps, now - WindowMs)
     IN  IF Len(pruned) >= RateLimitPerMinute
           THEN /\ requestTimestamps' = pruned
                /\ caller' = [caller EXCEPT ![c] =
                     [pc |-> "sleeping", now |-> now,
                      wake |-> now + (WindowMs - (now - pruned[1]))]]
                /\ started' = started
           ELSE /\ requestTimestamps' = Append(pruned, now)
                /\ caller' = [caller EXCEPT ![c] =
                     [pc |-> "called", now |-> now, wake |-> 0]]
                /\ started' = Append(started, now)
  /\ UNCHANGED now
  /\ UNCHANGED <<workerVars, apiVars, timerVars, serviceVars, routeVars>>

\* The sleep of checkRateLimit is over: it records the time read before
\* the sleep and returns, and the upstream call starts.
WakeRateLimit(c) ==
  /\ caller[c].pc = "sleeping"
  /\ now >= caller[c].wake
  /\ requestTimestamps' = Append(requestTimestamps, caller[c].now)
  /\ caller' = [caller EXCEPT ![c].pc = "called"]
  /\ started' = Append(started, now)
  /\ UNCHANGED now
  /\ UNCHANGED <<workerVars, apiVars, timerVars, serviceVars, routeVars>>

\* Time passes.
Tick ==
  /\ now < MaxTicks * TickMs
  /\ now' = now + TickMs
  /\ UNCHANGED <<requestTimestamps, caller, started>>
  /\ UNCHANGED <<workerVars, apiVars, timerVars, serviceVars, routeVars>>

\* ------------------------------------------------------------------------
\* routes: POST /schedule
\* ------------------------------------------------------------------------
\* Request bodies: keyword_ids (empty or absent: all keywords of the
\* project), platforms (absent: all platforms), scheduled_at (absent: now).
PlatformLists ==
  {<<"gemini">>, <<"perplexity">>, <<"gemini", "perplexity">>}
AllPlatforms == <<"gemini", "perplexity">>
ScheduleTimes == {5, 6}

ScheduleBodies ==
  [keyword_ids : {{}, {KeywordId}},
   platforms : {None} \cup {Some(l) : l \in PlatformLists},
   scheduled_at : {None} \cup {Some(t) : t \in ScheduleTimes}]

ScheduledJob(keywordId, platform, scheduledAt) ==
  [NewJob(platform) EXCEPT !.keyword_id = keywordId,
                           !.scheduled_at = scheduledAt]

\* ON CONFLICT DO NOTHING: tracking_jobs has no unique constraint but its
\* primary key id, which the INSERT fills with a fresh uuid.
JobInsertConflicts(table, id, row) == id \in DOMAIN table

\* The nested loops of the handler, flattened: the rows it inserts, in order.
RECURSIVE ScheduleRows(_, _, _)
ScheduleRows(keywordRows, platformList, scheduledTime) ==
  IF keywordRows = {} THEN <<>>
  ELSE LET k == CHOOSE x \in keywordRows : \A y \in keywordRows : x <= y
       IN  [i \in 1..Len(platformList) |->
              ScheduledJob(k, platformList[i], scheduledTime)]
             \o ScheduleRows(keywordRows \ {k}, platformList, scheduledTime)

RECURSIVE InsertJobs(_, _)
InsertJobs(table, rows) ==
  IF rows = <<>> THEN table
  ELSE LET id == Cardinality(DOMAIN table) + 1
       IN  InsertJobs(IF JobInsertConflicts(table, id, Head(rows)) THEN table
                      ELSE table @@ (id :> Head(rows)),
                      Tail(rows))

Schedule(body) ==
  /\ Len(scheduleLog) < MaxScheduleCalls
  /\ LET keywordRows == IF body.keyword_ids # {}
                          THEN keywords \cap body.keyword_ids
                          ELSE keywords
         platformList == IF body.platforms = None THEN AllPlatforms
                         ELSE body.platforms[1]
         scheduledTime == IF body.scheduled_at = None THEN clock
                          ELSE body.scheduled_at[1]
     IN  jobs' = InsertJobs(jobs, ScheduleRows(keywordRows, platformList,
                                               scheduledTime))
  /\ scheduleLog' = Append(scheduleLog, body)
  /\ UNCHANGED <<keywords, lastTrackedAt, citations, alerts, alertLog, clock,
                 deliveries, slot, quickTest>>
  /\ UNCHANGED <<limiterVars, timerVars, serviceVars, routeVars>>

\* ------------------------------------------------------------------------
\* routes: POST /quick-test
\* ------------------------------------------------------------------------
QuickTestDefault == <<"gemini", "google_ai_overview">>

QuickTestBodies ==
  [keyword : {"", "seo tools"},
   platforms : {None} \cup {Some(l) : l \in PlatformLists},
   domain : {None, Some(PrimaryDomain)}]

\* trackKeyword: the loop over the platforms, with the response that the
\* adapter of each configured platform gives; the citations table after it
\* and the results.
RECURSIVE TrackPlatforms(_, _, _, _, _, _)
TrackPlatforms(table, keywordId, domain, platformList, responses, trackedAt) ==
  IF platformList = <<>> THEN [citations |-> table, results |-> <<>>]
  ELSE LET platform == Head(platformList)
           result == IF platform \notin Configured
                       THEN FailResult("not configured", platform)
                       ELSE TrackResult(responses[platform], keywordId,
                                        domain, platform, trackedAt)
           store == result.success /\ result.citation # None
           accepted == store /\ CitationInsertAccepted(result.citation[1])
           pushed == IF store /\ ~accepted
                       THEN <<result, FailResult("store error", platform)>>
                       ELSE <<result>>
           rest == TrackPlatforms(IF accepted
                                    THEN table \cup {result.citation[1]}
                                    ELSE table,
                                  keywordId, domain, Tail(platformList),
                                  responses, trackedAt)
       IN  [citations |-> rest.citations, results |-> pushed \o rest.results]

\* The handler: 400 without a keyword; trackKeyword on the mock keyword and
\* project; DELETE FROM citations WHERE keyword_id = 'test'; 200.  An error
\* thrown by trackKeyword ends the request with 500.
QuickTest(body, responses) ==
  /\ IF ~TruthyStr(body.keyword)
       THEN /\ quickTest' = Some([status |-> 400, results |-> <<>>])
            /\ UNCHANGED <<citations, lastTrackedAt>>
       ELSE LET platformList == IF body.platforms = None THEN QuickTestDefault
                                ELSE body.platforms[1]
                domain == IF body.domain = None THEN ExampleDomain
                          ELSE body.domain[1]
                run == TrackPlatforms(citations, TestId, domain, platformList,
                                      responses, clock)
                updated == UpdateTrackingTimeAccepted(TestId)
            IN  /\ citations' =
                     IF updated
                       THEN {c \in run.citations : c.keyword_id # TestId}
                       ELSE run.citations
                /\ lastTrackedAt' =
                     IF updated /\ TestId = KeywordId /\ KeywordId \in keywords
                       THEN clock ELSE lastTrackedAt
                /\ quickTest' = Some([status |-> IF updated THEN 200 ELSE 500,
                                      results |-> run.results])
  /\ UNCHANGED <<jobs, keywords, alerts, alertLog, clock, deliveries, slot,
                 scheduleLog>>
  /\ UNCHANGED <<limiterVars, timerVars, serviceVars, routeVars>>

\* ------------------------------------------------------------------------
\* worker/index.ts startWorker: the timer of the daily tracking
\* ------------------------------------------------------------------------
\* Times of day at which the worker process may be started.
StartTimes == {FirstStartMs + k * StartStepMs : k \in 0..(NumStarts - 1)}

\* A callback of the timer may run late by up to MaxTimerDelayMs.
TimerDelays == {0, MaxTimerDelayMs}

\* now.getHours(), now.getMinutes() of a time of day in milliseconds
GetHours(t) == (t \div 3600000) % 24
GetMinutes(t) == (t \div 60000) % 60

\* startWorker: setInterval(..., 60000)
StartWorker(t) ==
  /\ timerAt = Null
  /\ timerAt' = t
  /\ UNCHANGED dailyRuns
  /\ UNCHANGED <<workerVars, limiterVars, apiVars, serviceVars, routeVars>>

\* The callback of the timer, run IntervalMs after the previous one (or the
\* start) or later: if (now.getHours() === 2 && now.getMinutes() === 0)
\* await runDailyTracking()
DailyTimerTick(delay) ==
  /\ timerAt # Null
  /\ timerAt < WatchEndMs
  /\ timerAt' = timerAt + IntervalMs + delay
  /\ dailyRuns' = IF /\ GetHours(timerAt') = DailyHour
                     /\ GetMinutes(timerAt') = DailyMinute
                    THEN dailyRuns + 1 ELSE dailyRuns
  /\ UNCHANGED <<workerVars, limiterVars, apiVars, serviceVars, routeVars>>

\* ------------------------------------------------------------------------
\* routes/projects.ts and routes/competitors.ts
\* ------------------------------------------------------------------------
\* The id a project created by POST /projects gets.
SecondProjectId == 2

\* Domains of competitors, and the list of the first n of them.
RivalLabels == <<"rival01", "rival02", "rival03", "rival04", "rival05",
                 "rival06", "rival07", "rival08", "rival09", "rival10",
                 "rival11">>
Rivals(n) == [i \in 1..n |-> <<RivalLabels[i], "com">>]

\* domainRegex /^[a-zA-Z0-9][a-zA-Z0-9-]{1,61}[a-zA-Z0-9]\.[a-zA-Z]{2,}$/ :
\* one label of three characters or more, a dot, and a top-level domain of
\* letters.
DomainRegexTest(domain) ==
  /\ Len(domain) = 2
  /\ domain[1] \in {"acme", "other", "example", "blog"}
                    \cup {RivalLabels[i] : i \in 1..Len(RivalLabels)}
  /\ domain[2] \in {"com"}

ProjectRow(primaryDomain, competitorDomains) ==
  [primary_domain |-> primaryDomain, competitor_domains |-> competitorDomains]

\* Array.prototype.includes
ArrayIncludes(list, x) == \E i \in 1..Len(list) : list[i] = x

\* Request bodies of POST /projects (the name is given).
CreateBodies ==
  [primary_domain : {None, Some(OtherDomain), Some(SubDomain)},
   competitor_domains : {None, Some(<<OtherDomain>>), Some(Rivals(11))}]

\* POST /projects: 400 without a primary_domain or with one the regex
\* rejects; otherwise the row is inserted with the competitor_domains of
\* the body (default []).
CreateProject(body) ==
  /\ SecondProjectId \notin DOMAIN projects
  /\ body.primary_domain # None
  /\ DomainRegexTest(body.primary_domain[1])
  /\ projects' = projects @@
       (SecondProjectId :>
          ProjectRow(body.primary_domain[1],
                     IF body.competitor_domains = None THEN <<>>
                     ELSE body.competitor_domains[1]))
  /\ UNCHANGED <<workerVars, limiterVars, apiVars, timerVars, routeVars>>
  /\ UNCHANGED <<competitorReq, scoreRun, dailyMetrics, generatedFrom,
                 projectRun, sentimentOut>>

\* Request bodies of PATCH /projects/:id.
UpdateBodies ==
  [primary_domain : {None, Some(Rivals(10)[10])},
   competitor_domains : {None, Some(Rivals(9))}]

\* PATCH /projects/:id: 400 when the body names no field, 404 when no row
\* matches; otherwise the fields of the body are written as they are.
UpdateProject(id, body) ==
  /\ body.primary_domain # None \/ body.competitor_domains # None
  /\ id \in DOMAIN projects
  /\ projects' =
       [projects EXCEPT
          ![id] = ProjectRow(
            IF body.primary_domain # None THEN body.primary_domain[1]
            ELSE @.primary_domain,
            IF body.competitor_domains # None THEN body.competitor_domains[1]
            ELSE @.competitor_domains)]
  /\ UNCHANGED <<workerVars, limiterVars, apiVars, timerVars, routeVars>>
  /\ UNCHANGED <<competitorReq, scoreRun, dailyMetrics, generatedFrom,
                 projectRun, sentimentOut>>

\* The add and remove requests that run at once.
Reqs == {1, 2}
IdleReq == [pc |-> "idle", project |-> Null, domain |-> <<>>,
            currentCompetitors |-> <<>>]

\* The limit of POST /:projectId/add
CompetitorLimit == 10

\* POST /:projectId/add up to the answer of its SELECT: 400 for a domain
\* the regex rejects, 404 without a row.
AddCompetitorSelect(r, id, domain) ==
  /\ competitorReq[r].pc = "idle"
  /\ DomainRegexTest(domain)
  /\ id \in DOMAIN projects
  /\ competitorReq' =
       [competitorReq EXCEPT
          ![r] = [pc |-> "add", project |-> id, domain |-> domain,
                  currentCompetitors |-> projects[id].competitor_domains]]
  /\ UNCHANGED <<workerVars, limiterVars, apiVars, timerVars, routeVars>>
  /\ UNCHANGED <<projects, scoreRun, dailyMetrics, generatedFrom,
                 projectRun, sentimentOut>>

\* The answer to request r, with the requests that were between their
\* SELECT and their UPDATE when it was given; a request that is answered
\* is no longer among those of the answers given before.
Answer(r, op, status) ==
  competitorRes' =
    [q \in Reqs |->
       IF q = r
         THEN Some([op |-> op, project |-> competitorReq[r].project,
                    domain |-> competitorReq[r].domain, status |-> status,
                    during |-> {x \in Reqs \ {r} :
                                  competitorReq[x].pc # "idle"}])
       ELSE IF competitorRes[q] = None THEN None
       ELSE Some([competitorRes[q][1] EXCEPT !.during = @ \ {r}])]

\* The rest of POST /:projectId/add: 400 when the list read has 10 entries
\* or more; the UPDATE writes the list read with the domain appended,
\* unless the list read includes it already.
AddCompetitorUpdate(r) ==
  LET req == competitorReq[r]
  IN  /\ req.pc = "add"
      /\ projects' =
           IF /\ Len(req.currentCompetitors) < CompetitorLimit
              /\ ~ArrayIncludes(req.currentCompetitors, req.domain)
             THEN [projects EXCEPT ![req.project].competitor_domains =
                     Append(req.currentCompetitors, req.domain)]
             ELSE projects
      /\ Answer(r, "add", IF Len(req.currentCompetitors) < CompetitorLimit
                            THEN 200 ELSE 400)
      /\ competitorReq' = [competitorReq EXCEPT ![r] = IdleReq]
      /\ UNCHANGED <<workerVars, limiterVars, apiVars, timerVars>>
      /\ UNCHANGED <<scoreRun, dailyMetrics, generatedFrom, projectRun,
                     sentimentOut, adapterOut, summaryOut, storedScore,
                     apiIntegrations, settingsRes, alertRes>>

\* DELETE /:projectId/remove up to the answer of its SELECT.
RemoveCompetitorSelect(r, id, domain) ==
  /\ competitorReq[r].pc = "idle"
  /\ id \in DOMAIN projects
  /\ competitorReq' =
       [competitorReq EXCEPT
          ![r] = [pc |-> "remove", project |-> id, domain |-> domain,
                  currentCompetitors |-> projects[id].competitor_domains]]
  /\ UNCHANGED <<workerVars, limiterVars, apiVars, timerVars, routeVars>>
  /\ UNCHANGED <<projects, scoreRun, dailyMetrics, generatedFrom,
                 projectRun, sentimentOut>>

\* The rest of DELETE /:projectId/remove: the UPDATE writes the list read
\* without the domain.
RemoveCompetitorUpdate(r) ==
  LET req == competitorReq[r]
  IN  /\ req.pc = "remove"
      /\ projects' =
           [projects EXCEPT ![req.project].competitor_domains =
              SelectSeq(req.currentCompetitors, LAMBDA d : d # req.domain)]
      /\ Answer(r, "remove", 200)
      /\ competitorReq' = [competitorReq EXCEPT ![r] = IdleReq]
      /\ UNCHANGED <<workerVars, limiterVars, apiVars, timerVars>>
      /\ UNCHANGED <<scoreRun, dailyMetrics, generatedFrom, projectRun,
                     sentimentOut, adapterOut, summaryOut, storedScore,
                     apiIntegrations, settingsRes, alertRes>>

\* ------------------------------------------------------------------------
\* worker/index.ts: the handlers of SIGTERM and SIGINT, and the restart
\* ------------------------------------------------------------------------
\* redis.disconnect(); pool.end(); process.exit(0): the invocations in
\* flight end where they are.  startWorker of the next process creates the
\* Worker and the daily timer and touches no row of tracking_jobs.
Shutdown ==
  /\ \E w \in Slots : slot[w].pc # "idle"
  /\ slot' = [w \in Slots |-> IdleSlot]
  /\ UNCHANGED <<jobs, keywords, lastTrackedAt, citations, alerts, alertLog,
                 clock, deliveries>>
  /\ UNCHANGED <<limiterVars, apiVars, timerVars, serviceVars, routeVars>>

\* ------------------------------------------------------------------------
\* trackingEngine.ts trackProject
\* ------------------------------------------------------------------------
MaxProjectRuns == 2   \* calls of trackProject

\* trackProject up to the answer of its SELECT of the active keywords;
\* without options.platforms trackKeyword takes every platform.  With no
\* keyword selected the loop is skipped and the counts are returned.
TrackProjectSelect(options) ==
  /\ IF projectRun = None THEN TRUE ELSE projectRun[1].pc = "done"
  /\ clock <= MaxProjectRuns
  /\ ProjectId \in DOMAIN projects
  /\ projectRun' = Some([pc |-> IF keywords = {} THEN "done" ELSE "track",
                         keywords |-> keywords, remaining |-> keywords,
                         platforms |-> IF options = None THEN AllPlatforms
                                       ELSE options[1],
                         totalKeywords |-> Cardinality(keywords),
                         successfulTracks |-> 0, failedTracks |-> 0,
                         newCitations |-> 0, persisted |-> {}])
  /\ UNCHANGED <<workerVars, limiterVars, apiVars, timerVars, routeVars>>
  /\ UNCHANGED <<projects, competitorReq, scoreRun, dailyMetrics,
                 generatedFrom, sentimentOut>>

\* One round of the loop of trackProject: trackKeyword for the next keyword
\* selected, the counting of its results and the sleep; after the last
\* keyword the counts are returned.
TrackProjectKeyword(responses) ==
  /\ projectRun # None
  /\ projectRun[1].pc = "track"
  /\ \E keywordId \in {k \in projectRun[1].remaining :
                         \A l \in projectRun[1].remaining : k <= l} :
     \E run \in {TrackPlatforms(citations, keywordId,
                                projects[ProjectId].primary_domain,
                                projectRun[1].platforms, responses, clock)} :
       /\ citations' = run.citations
       /\ lastTrackedAt' = IF keywordId = KeywordId /\ keywordId \in keywords
                             THEN clock ELSE lastTrackedAt
       /\ projectRun' =
            Some([projectRun[1] EXCEPT
                    !.pc = IF projectRun[1].remaining = {keywordId}
                             THEN "done" ELSE "track",
                    !.remaining = @ \ {keywordId},
                    !.successfulTracks =
                      @ + Cardinality({i \in 1..Len(run.results) :
                                         run.results[i].success}),
                    !.failedTracks =
                      @ + Cardinality({i \in 1..Len(run.results) :
                                         ~run.results[i].success}),
                    !.newCitations =
                      @ + Cardinality(
                            {i \in 1..Len(run.results) :
                               /\ run.results[i].success
                               /\ run.results[i].citation # None
                               /\ run.results[i].citation[1].domain_mentioned}),
                    !.persisted = @ \cup (run.citations \ citations)])
  /\ clock' = clock + 1
  /\ UNCHANGED <<jobs, keywords, alerts, alertLog, deliveries, slot>>
  /\ UNCHANGED <<limiterVars, apiVars, timerVars, routeVars>>
  /\ UNCHANGED <<projects, competitorReq, scoreRun, dailyMetrics,
                 generatedFrom, sentimentOut>>

\* ------------------------------------------------------------------------
\* services/scoring.ts
\* ------------------------------------------------------------------------
MaxScoreRows == 3   \* citations in the store of the scoring service

\* Number of members of the enum AIPlatform: Object.keys(AIPlatform).length
TotalPlatforms == 8

\* Times are days; day 0 is a Monday.  The scoring service runs on ScoreToday
\* and the store holds citations of that day and of a day of the week
\* before.
ScoreToday == 20
LastWeekDay == 10
MetricDates == {ScoreToday, LastWeekDay}

\* DATE_TRUNC('week', t)
DateTruncWeek(t) == t - (t % 7)

\* Answers the tracked citations of the scoring store come from: the
\* project's site not cited, cited as inline reference [0], cited first.
ScoreAnswers ==
  {<<Cit(OtherDomain, 1)>>, <<Cit(WwwDomain, 0)>>, <<Cit(WwwDomain, 1)>>}

\* (platform, day) of the tracking runs that fill the scoring store.
ScoreTracks ==
  {<<"gemini", ScoreToday>>, <<"gemini", LastWeekDay>>,
   <<"perplexity", ScoreToday>>}

\* trackOnPlatform and storeCitation of a tracking run on the given day.
TrackAndStore(platform, day, answer) ==
  LET result == TrackResultOf(AnswerResponse(answer), platform, day)
  IN  /\ Cardinality(citations) < MaxScoreRows
      /\ CitationInsertAccepted(result.citation[1])
      /\ citations' = citations \cup {result.citation[1]}
      /\ UNCHANGED <<jobs, keywords, lastTrackedAt, alerts, alertLog, clock,
                     deliveries, slot>>
      /\ UNCHANGED <<limiterVars, apiVars, timerVars, serviceVars, routeVars>>

RECURSIVE SumOver(_, _)
SumOver(S, f) ==
  IF S = {} THEN 0
  ELSE LET x == CHOOSE y \in S : TRUE IN f[x] + SumOver(S \ {x}, f)

RECURSIVE ProductOver(_, _)
ProductOver(S, f) ==
  IF S = {} THEN 1
  ELSE LET x == CHOOSE y \in S : TRUE IN f[x] * ProductOver(S \ {x}, f)

\* A rational number.
Frac(n, d) == [n |-> n, d |-> d]

\* AVG(citation_position) FILTER (WHERE domain_mentioned = true AND
\* citation_position IS NOT NULL): null without such a row.
AvgPosition(rows) ==
  LET positioned == {c \in rows : c.domain_mentioned
                                  /\ c.citation_position # Null}
  IN  IF positioned = {} THEN None
      ELSE Some(Frac(SumOver(positioned,
                             [c \in positioned |-> c.citation_position]),
                     Cardinality(positioned)))

\* The first query of calculateVisibilityScore: one row per platform of the
\* citations tracked since the given day.
CitationAggregates(table, since) ==
  LET recent == {c \in table : c.tracked_at >= since}
  IN  {LET rows == {c \in recent : c.platform = p}
       IN  [platform |-> p,
            citation_count |->
              Cardinality({c \in rows : c.domain_mentioned}),
            keywords_ranked |->
              Cardinality({c.keyword_id : c \in
                             {r \in rows : r.domain_mentioned}}),
            avg_position |-> AvgPosition(rows),
            positive_mentions |->
              Cardinality({c \in rows : c.sentiment = "positive"}),
            negative_mentions |->
              Cardinality({c \in rows : c.sentiment = "negative"})]
       : p \in {c.platform : c \in recent}}

\* SELECT COUNT(*) FROM keywords WHERE project_id = $1 AND is_active = true
ActiveKeywordCount(table) == Cardinality(table)

\* The two queries of calculateMomentumScore.
ThisWeekCount(table, today) ==
  Cardinality({c \in table : /\ c.domain_mentioned
                             /\ c.tracked_at >= DateTruncWeek(today)})
LastWeekCount(table, today) ==
  Cardinality({c \in table : /\ c.domain_mentioned
                             /\ c.tracked_at >= DateTruncWeek(today - 7)
                             /\ c.tracked_at < DateTruncWeek(today)})

TotalCitations(rows) ==
  SumOver(rows, [r \in rows |-> r.citation_count])

\* calculateFrequencyScore
CalculateFrequencyScore(rows, totalKeywords) ==
  IF totalKeywords = 0 THEN Frac(0, 1)
  ELSE IF TotalCitations(rows) * 20 >= 100 * totalKeywords THEN Frac(100, 1)
  ELSE Frac(TotalCitations(rows) * 20, totalKeywords)

\* parseFloat(row.avg_position) || 99
PositionOrDefault(row) ==
  IF row.avg_position = None \/ row.avg_position[1].n = 0 THEN Frac(99, 1)
  ELSE row.avg_position[1]

\* calculatePositionScore
CalculatePositionScore(rows) ==
  IF rows = {} \/ TotalCitations(rows) = 0 THEN Frac(0, 1)
  ELSE LET den == ProductOver(rows, [r \in rows |-> PositionOrDefault(r).d])
           weightedPositionSum ==
             SumOver(rows, [r \in rows |->
                              r.citation_count * PositionOrDefault(r).n
                                * (den \div PositionOrDefault(r).d)])
           total == den * TotalCitations(rows)
           score == 100 * total - (weightedPositionSum - total) * 11
       IN  IF score < 0 THEN Frac(0, 1) ELSE Frac(score, total)

\* calculateDiversityScore
CalculateDiversityScore(rows) ==
  Frac(Cardinality({r \in rows : r.citation_count > 0}) * 100, TotalPlatforms)

\* calculateContextScore
CalculateContextScore(rows) ==
  LET positiveMentions == SumOver(rows, [r \in rows |-> r.positive_mentions])
      totalMentions ==
        SumOver(rows, [r \in rows |->
                         r.positive_mentions + r.negative_mentions])
  IN  IF totalMentions = 0 THEN Frac(50, 1)
      ELSE Frac(positiveMentions * 100, totalMentions)

\* calculateMomentumScore, given the answers of its two queries
CalculateMomentumScore(thisWeek, lastWeek) ==
  IF lastWeek = 0 THEN (IF thisWeek > 0 THEN Frac(100, 1) ELSE Frac(0, 1))
  ELSE LET growth == (thisWeek - lastWeek) * 100
           normalizedGrowth ==
             IF growth > 100 * lastWeek THEN 100 * lastWeek
             ELSE IF growth < -100 * lastWeek THEN -100 * lastWeek
             ELSE growth
       IN  Frac(normalizedGrowth + 100 * lastWeek, 2 * lastWeek)

\* Math.round(x * 100) / 100, in hundredths
RoundHundredths(x) == RoundDiv(x.n * 100, x.d)

\* The same rational number in lowest terms.
RECURSIVE GCD(_, _)
GCD(a, b) == IF b = 0 THEN a ELSE GCD(b, a % b)

Reduce(x) ==
  LET g == GCD(IF x.n < 0 THEN -x.n ELSE x.n, x.d)
  IN  Frac(x.n \div g, x.d \div g)

\* assignGrade, of a rational score
AssignGrade(score) ==
  IF score.n >= 90 * score.d THEN "A+"
  ELSE IF score.n >= 80 * score.d THEN "A"
  ELSE IF score.n >= 70 * score.d THEN "B"
  ELSE IF score.n >= 60 * score.d THEN "C"
  ELSE IF score.n >= 50 * score.d THEN "D"
  ELSE "F"

\* The VisibilityScore of calculateVisibilityScore, in hundredths, from the
\* answers of its four queries.
VisibilityScore(rows, totalKeywords, thisWeek, lastWeek) ==
  LET frequencyScore ==
        Reduce(CalculateFrequencyScore(rows, totalKeywords))
      positionScore ==
        Reduce(CalculatePositionScore(rows))
      diversityScore ==
        Reduce(CalculateDiversityScore(rows))
      contextScore ==
        Reduce(CalculateContextScore(rows))
      momentumScore ==
        Reduce(CalculateMomentumScore(thisWeek, lastWeek))
      d == frequencyScore.d * positionScore.d * diversityScore.d
             * contextScore.d * momentumScore.d
      overallScore ==
        Reduce(Frac(40 * frequencyScore.n * (d \div frequencyScore.d)
                      + 30 * positionScore.n * (d \div positionScore.d)
                      + 15 * diversityScore.n * (d \div diversityScore.d)
                      + 10 * contextScore.n * (d \div contextScore.d)
                      + 5 * momentumScore.n * (d \div momentumScore.d),
                    100 * d))
  IN  [overall_score |-> RoundHundredths(overallScore),
       overall_grade |-> AssignGrade(overallScore),
       frequency_score |-> RoundHundredths(frequencyScore),
       position_score |-> RoundHundredths(positionScore),
       diversity_score |-> RoundHundredths(diversityScore),
       context_score |-> RoundHundredths(contextScore),
       momentum_score |-> RoundHundredths(momentumScore)]

\* A run of calculateVisibilityScore: its position and the answers of the
\* queries made so far.
IdleScoreRun ==
  [pc |-> "idle", rows |-> {}, totalKeywords |-> 0, thisWeek |-> 0,
   lastWeek |-> 0]

\* thirtyDaysAgo and the query of the per-platform aggregates
QueryAggregates ==
  /\ scoreRun.pc \in {"idle", "done"}
  /\ scoreRun' = [IdleScoreRun EXCEPT
                    !.pc = "keywords",
                    !.rows = CitationAggregates(citations, ScoreToday - 30)]
  /\ UNCHANGED <<workerVars, limiterVars, apiVars, timerVars, routeVars>>
  /\ UNCHANGED <<projects, competitorReq, dailyMetrics, generatedFrom,
                 projectRun, sentimentOut>>

\* The query of the number of active keywords
QueryKeywords ==
  /\ scoreRun.pc = "keywords"
  /\ scoreRun' = [scoreRun EXCEPT
                    !.pc = "thisWeek",
                    !.totalKeywords = ActiveKeywordCount(keywords)]
  /\ UNCHANGED <<workerVars, limiterVars, apiVars, timerVars, routeVars>>
  /\ UNCHANGED <<projects, competitorReq, dailyMetrics, generatedFrom,
                 projectRun, sentimentOut>>

\* calculateMomentumScore: the query of this week's citations
QueryThisWeek ==
  /\ scoreRun.pc = "thisWeek"
  /\ scoreRun' = [scoreRun EXCEPT
                    !.pc = "lastWeek",
                    !.thisWeek = ThisWeekCount(citations, ScoreToday)]
  /\ UNCHANGED <<workerVars, limiterVars, apiVars, timerVars, routeVars>>
  /\ UNCHANGED <<projects, competitorReq, dailyMetrics, generatedFrom,
                 projectRun, sentimentOut>>

\* calculateMomentumScore: the query of last week's citations; the score
\* is then computed from the four answers and returned.
QueryLastWeek ==
  /\ scoreRun.pc = "lastWeek"
  /\ scoreRun' = [scoreRun EXCEPT
                    !.pc = "done",
                    !.lastWeek = LastWeekCount(citations, ScoreToday)]
  /\ UNCHANGED <<workerVars, limiterVars, apiVars, timerVars, routeVars>>
  /\ UNCHANGED <<projects, competitorReq, dailyMetrics, generatedFrom,
                 projectRun, sentimentOut>>

\* The VisibilityScore a finished run returned.
ScoreOf(run) ==
  VisibilityScore(run.rows, run.totalKeywords, run.thisWeek, run.lastWeek)

\* generateDailyMetrics: the row its SELECT computes for a platform from
\* the citations of the date.  avg_citation_position is DECIMAL(4,2), kept
\* in hundredths.
DailyMetric(rows, date, platform) ==
  LET mentioned == {c \in rows : c.domain_mentioned}
  IN  [project_id |-> ProjectId, date |-> date, platform |-> platform,
       total_keywords_tracked |-> Cardinality({c.keyword_id : c \in rows}),
       keywords_with_citations |->
         Cardinality({c.keyword_id : c \in mentioned}),
       total_citations |-> Cardinality(mentioned),
       avg_citation_position |->
         IF AvgPosition(rows) = None THEN None
         ELSE Some(RoundHundredths(AvgPosition(rows)[1])),
       first_position_citations |->
         Cardinality({c \in mentioned : c.citation_position = 1}),
       top3_citations |->
         Cardinality({c \in mentioned : /\ c.citation_position # Null
                                        /\ c.citation_position <= 3}),
       share_of_voice_percent |-> 0,
       positive_mentions |->
         Cardinality({c \in rows : c.sentiment = "positive"}),
       neutral_mentions |->
         Cardinality({c \in rows : c.sentiment = "neutral"}),
       negative_mentions |->
         Cardinality({c \in rows : c.sentiment = "negative"})]

\* The columns of UNIQUE(project_id, date, platform)
DailyMetricKey(row) == <<row.project_id, row.date, row.platform>>

\* An INSERT that no unique constraint stops.
UpsertDailyMetric_PlainInsert(table, row) == Append(table, row)

\* INSERT ... ON CONFLICT (project_id, date, platform) DO UPDATE SET ...:
\* a row of the same key takes the new values of every computed column but
\* share_of_voice_percent; without one the row is inserted.
UpsertDailyMetric(table, row) ==
  IF \E i \in 1..Len(table) : DailyMetricKey(table[i]) = DailyMetricKey(row)
    THEN [i \in 1..Len(table) |->
            IF DailyMetricKey(table[i]) = DailyMetricKey(row)
              THEN [row EXCEPT !.share_of_voice_percent =
                                 table[i].share_of_voice_percent]
              ELSE table[i]]
    ELSE Append(table, row)

\* The order in which the rows of GROUP BY platform are taken.
PlatformOrder == <<"gemini", "perplexity">>

RECURSIVE UpsertDailyMetrics(_, _, _, _)
UpsertDailyMetrics(table, rows, date, i) ==
  IF i > Len(PlatformOrder) THEN table
  ELSE LET group == {c \in rows : c.platform = PlatformOrder[i]}
       IN  UpsertDailyMetrics(
             IF group = {} THEN table
             ELSE UpsertDailyMetric(table,
                                    DailyMetric(group, date, PlatformOrder[i])),
             rows, date, i + 1)

\* generateDailyMetrics(projectId, date)
GenerateDailyMetrics(date) ==
  LET read == {c \in citations : c.tracked_at = date}
  IN  /\ dailyMetrics' = UpsertDailyMetrics(dailyMetrics, read, date, 1)
      /\ generatedFrom' =
           [generatedFrom EXCEPT
              ![date] = Some([read |-> read,
                              rerun |-> /\ generatedFrom[date] # None
                                        /\ generatedFrom[date][1].read = read])]
      /\ UNCHANGED <<workerVars, limiterVars, apiVars, timerVars, routeVars>>
      /\ UNCHANGED <<projects, competitorReq, scoreRun, projectRun,
                     sentimentOut>>

\* ------------------------------------------------------------------------
\* trackingEngine.ts analyzeSentiment, called on its own
\* ------------------------------------------------------------------------
MaxTextLen == 3   \* tokens of the texts drawn from the alphabet

\* "Acme.com is a leading provider."
LeadingText == <<"Acme", ".", "com", "is", "a", "leading", "provider", ".">>

\* The texts of up to MaxTextLen tokens, and the one above.
Texts ==
  UNION {[1..n -> {"Acme", ".", "com", "leading", "poor"}] :
           n \in 0..MaxTextLen} \cup {LeadingText}

Analyze(text, domain) ==
  /\ sentimentOut' = Some([text |-> text, domain |-> domain,
                           sentiment |-> AnalyzeSentiment(text, domain)])
  /\ UNCHANGED <<workerVars, limiterVars, apiVars, timerVars, routeVars>>
  /\ UNCHANGED <<projects, competitorReq, scoreRun, dailyMetrics,
                 generatedFrom, projectRun>>

\* ------------------------------------------------------------------------
\* The provider adapters: the citation list parsed from an answer
\* ------------------------------------------------------------------------
\* The longest list of references in an answer.
MaxRefs == 3

Urls == {"https://acme.com/a", "https://other.com/b"}

AICitation(url, title, position) ==
  [url |-> url, title |-> title, position |-> position]

\* The entries of seq at the indices of keep, in the order of seq
\* (Array.prototype.filter, and a forEach that pushes under a condition).
FilterAt(seq, keep) ==
  LET nth(k) == CHOOSE i \in keep : Cardinality({j \in keep : j < i}) = k - 1
  IN  [k \in 1..Cardinality(keep) |-> seq[nth(k)]]

\* GeminiService.deduplicateCitations: filter with the Set of the urls seen
GeminiDeduplicateCitations(list) ==
  FilterAt(list,
           {i \in 1..Len(list) :
              \A j \in 1..(i - 1) : list[j].url # list[i].url})

\* GeminiService.extractInlineCitations.  The text is given by the matches
\* of /\[(\d+)\][^\n]*?(https?:\/\/[^\s\]]+)/g in it, in order: the digits
\* and the url of each.
ExtractInlineCitations(matches) ==
  [i \in 1..Len(matches) |->
     AICitation(matches[i].url, "", matches[i].number)]

\* GeminiService.extractCitations.  chunks are the groundingChunks, each
\* the web.uri of the chunk or None for a chunk without one.
GeminiExtractCitations(response) ==
  LET chunks == response.chunks
      grounded ==
        FilterAt([i \in 1..Len(chunks) |->
                    IF chunks[i] = None THEN AICitation("", "", i)
                    ELSE AICitation(chunks[i][1], "", i)],
                 {i \in 1..Len(chunks) : chunks[i] # None})
  IN  GeminiDeduplicateCitations(
        grounded \o ExtractInlineCitations(response.matches))

\* PerplexityService.extractCitations: response.citations is an array of
\* urls; an empty one is skipped.
PerplexityExtractCitations(citationUrls) ==
  FilterAt([i \in 1..Len(citationUrls) |->
              AICitation(citationUrls[i], "", i)],
           {i \in 1..Len(citationUrls) : TruthyStr(citationUrls[i])})

\* SerpApiService.parseReferences: refs are given by ref.link || ref.url
\* || '' of each; the references without a link are dropped.
ParseReferences(refs) ==
  FilterAt([i \in 1..Len(refs) |->
              [title |-> "Source", link |-> refs[i]]],
           {i \in 1..Len(refs) : TruthyStr(refs[i])})

\* SerpApiService.extractCitationsFromAIOOverview
ExtractCitationsFromAIOOverview(references) ==
  [i \in 1..Len(references) |->
     AICitation(references[i].link, references[i].title, i)]

\* OpenAIService.deduplicateCitations: a Map by url, whose entry is
\* replaced by a later citation with a title when it has none; the values
\* in the order of first insertion, renumbered.
OpenAIDeduplicateCitations(list) ==
  LET first == {i \in 1..Len(list) :
                  \A j \in 1..(i - 1) : list[j].url # list[i].url}
      titled(i) == {j \in (i + 1)..Len(list) :
                      /\ list[j].url = list[i].url
                      /\ TruthyStr(list[j].title)}
      kept(i) == IF TruthyStr(list[i].title) \/ titled(i) = {}
                   THEN list[i]
                 ELSE list[CHOOSE j \in titled(i) :
                                  \A k \in titled(i) : j <= k]
      values == FilterAt([i \in 1..Len(list) |-> kept(i)], first)
  IN  [i \in 1..Len(values) |-> [values[i] EXCEPT !.position = i]]

\* The url that /(https?:\/\/[^\s\]]+)/ reads at a reference: it takes
\* the ")" that follows the url, which /(https?:\/\/[^\s\]\)]+)/ leaves.
NumberedUrl(item) == IF item.closing THEN item.url \o ")" ELSE item.url

\* OpenAIService.extractCitations.  The text is given by its references in
\* order: markdown links [title](url), bare urls, and numbered references
\* "[n] ... url", the last followed by ")" or not.
OpenAIExtractCitations(items) ==
  LET links == FilterAt(items, {i \in 1..Len(items) :
                                  items[i].kind = "link"})
      markdown == [i \in 1..Len(links) |->
                     AICitation(links[i].url, "title", i)]
      seenUrls == {links[i].url : i \in 1..Len(links)}
      fresh == FilterAt(items,
                 {i \in 1..Len(items) :
                    /\ items[i].url \notin seenUrls
                    /\ \A j \in 1..(i - 1) : items[j].url # items[i].url})
      bare == [i \in 1..Len(fresh) |->
                 AICitation(fresh[i].url, "", Len(links) + i)]
      seenAll == {items[i].url : i \in 1..Len(items)}
      refs == FilterAt(items,
                {i \in 1..Len(items) :
                   /\ items[i].kind = "numbered"
                   /\ NumberedUrl(items[i]) \notin seenAll
                   /\ \A j \in 1..(i - 1) :
                        items[j].kind = "numbered"
                          => NumberedUrl(items[j]) # NumberedUrl(items[i])})
      numbered == [i \in 1..Len(refs) |->
                     AICitation(NumberedUrl(refs[i]), "", refs[i].number)]
  IN  OpenAIDeduplicateCitations(markdown \o bare \o numbered)

\* The answers the adapters parse.
UrlLists == UNION {[1..n -> Urls \cup {""}] : n \in 0..MaxRefs}

GeminiResponses ==
  [chunks : UNION {[1..n -> {None} \cup {Some(u) : u \in Urls}] :
                     n \in 0..(MaxRefs - 1)},
   matches : UNION {[1..n -> [number : {0, 1, 2}, url : Urls]] :
                      n \in 0..(MaxRefs - 2)}]

OpenAIItems ==
  [kind : {"link", "bare"}, url : Urls, number : {Null}, closing : {FALSE}]
    \cup [kind : {"numbered"}, url : Urls, number : {0, 1},
          closing : BOOLEAN]

OpenAITexts == UNION {[1..n -> OpenAIItems] : n \in 0..(MaxRefs - 1)}

AdapterAnswer(platform, list) ==
  adapterOut' = Some([platform |-> platform, citations |-> list])

\* GeminiService.query on an answer of the upstream
GeminiQuery(response) ==
  /\ AdapterAnswer("gemini", GeminiExtractCitations(response))
  /\ UNCHANGED <<workerVars, limiterVars, apiVars, timerVars, serviceVars>>
  /\ UNCHANGED <<summaryOut, storedScore, competitorRes, apiIntegrations,
                 settingsRes, alertRes>>

\* PerplexityService.query on an answer of the upstream
PerplexityQuery(citationUrls) ==
  /\ AdapterAnswer("perplexity", PerplexityExtractCitations(citationUrls))
  /\ UNCHANGED <<workerVars, limiterVars, apiVars, timerVars, serviceVars>>
  /\ UNCHANGED <<summaryOut, storedScore, competitorRes, apiIntegrations,
                 settingsRes, alertRes>>

\* SerpApiService.searchWithAIOOverview on an answer with an AI Overview
SearchWithAIOOverview(refs) ==
  /\ AdapterAnswer("google_ai_overview",
                   ExtractCitationsFromAIOOverview(ParseReferences(refs)))
  /\ UNCHANGED <<workerVars, limiterVars, apiVars, timerVars, serviceVars>>
  /\ UNCHANGED <<summaryOut, storedScore, competitorRes, apiIntegrations,
                 settingsRes, alertRes>>

\* OpenAIService.query on an answer of the upstream
OpenAIQuery(items) ==
  /\ AdapterAnswer("openai", OpenAIExtractCitations(items))
  /\ UNCHANGED <<workerVars, limiterVars, apiVars, timerVars, serviceVars>>
  /\ UNCHANGED <<summaryOut, storedScore, competitorRes, apiIntegrations,
                 settingsRes, alertRes>>

\* ------------------------------------------------------------------------
\* services/trackingEngine.ts generateSummary
\* ------------------------------------------------------------------------
\* The default of maxLength
SummaryMaxLength == 500

\* The texts are up to TextSpread characters shorter or longer than
\* maxLength.
TextSpread == 6

\* String.prototype.lastIndexOf, on a sequence of characters
LastIndexOf(text, ch) ==
  LET at == {i \in 1..Len(text) : text[i] = ch}
  IN  IF at = {} THEN -1 ELSE (CHOOSE i \in at : \A j \in at : j <= i) - 1

\* String.prototype.substring(0, end)
Substring(text, end) ==
  SubSeq(text, 1, IF end > Len(text) THEN Len(text) ELSE end)

GenerateSummary(text, maxLength) ==
  IF Len(text) <= maxLength THEN text
  ELSE LET truncated == Substring(text, maxLength)
           lastSentence == LastIndexOf(truncated, ".")
       IN  IF 10 * lastSentence > 7 * maxLength
             THEN Substring(truncated, lastSentence + 1)
           ELSE truncated \o <<".", ".", ".">>

\* The texts of the lengths around maxLength, of the letter "a" with at
\* most one full stop, before or after 0.7 * maxLength or near the end.
SummaryTexts ==
  {[i \in 1..n |-> IF i = dot THEN "." ELSE "a"] :
     n \in (SummaryMaxLength - TextSpread)..(SummaryMaxLength + TextSpread),
     dot \in {0} \cup 349..354 \cup {SummaryMaxLength, SummaryMaxLength + 1}}

\* response_summary: this.generateSummary(response.response_text)
Summarize(text) ==
  /\ summaryOut' = Some([text |-> text,
                         response_summary |->
                           GenerateSummary(text, SummaryMaxLength)])
  /\ UNCHANGED <<workerVars, limiterVars, apiVars, timerVars, serviceVars>>
  /\ UNCHANGED <<adapterOut, storedScore, competitorRes, apiIntegrations,
                 settingsRes, alertRes>>

\* ------------------------------------------------------------------------
\* services/scoring.ts: the score stored from the answers of the queries
\* ------------------------------------------------------------------------
MaxCitationCount == 5    \* citations of the platform in the last 30 days
MaxActiveKeywords == 3   \* active keywords of the project
MaxPosition == 3         \* largest citation_position among them

\* The answers of the first query for a project cited on one platform:
\* count citations with domain_mentioned, of positions 1..MaxPosition, at
\* most one of them positive and none negative.
AggregateRows ==
  {[platform |-> "gemini", citation_count |-> count,
    keywords_ranked |-> 1, avg_position |-> Some(Frac(sum, count)),
    positive_mentions |-> positive, negative_mentions |-> 0] :
     <<count, sum, positive>> \in
       {a \in (1..MaxCitationCount)
                \X (1..(MaxPosition * MaxCitationCount)) \X {0, 1} :
          a[2] >= a[1] /\ a[2] <= MaxPosition * a[1]}}

\* calculateVisibilityScore on the answers of its four queries, and
\* storeVisibilityScore: the INSERT INTO visibility_scores.  The citations
\* counted were all tracked this week or last week.
StoreVisibilityScore(row, totalKeywords, thisWeek, lastWeek) ==
  /\ thisWeek + lastWeek = row.citation_count
  /\ storedScore' = Some(VisibilityScore({row}, totalKeywords, thisWeek,
                                         lastWeek))
  /\ UNCHANGED <<workerVars, limiterVars, apiVars, timerVars, serviceVars>>
  /\ UNCHANGED <<adapterOut, summaryOut, competitorRes, apiIntegrations,
                 settingsRes, alertRes>>

\* ------------------------------------------------------------------------
\* routes/settings.ts PATCH /api-integrations and the api_integrations table
\* ------------------------------------------------------------------------
\* The fields of the body, in the order in which the handler tests them.
KeyFields ==
  <<"gemini_api_key", "serp_api_key", "openai_api_key", "perplexity_api_key">>
RateLimitFields ==
  <<"gemini_rate_limit", "serp_rate_limit", "openai_rate_limit">>
IntegrationFields == KeyFields \o RateLimitFields

FieldSet == {IntegrationFields[i] : i \in 1..Len(IntegrationFields)}

\* The row of INSERT ... VALUES ($1, NULL, NULL, NULL, NULL): the keys are
\* NULL and the rate limits take the defaults of their columns.
DefaultIntegration ==
  [f \in FieldSet |->
     IF f = "serp_rate_limit" THEN Some(100)
     ELSE IF f \in {"gemini_rate_limit", "openai_rate_limit"} THEN Some(60)
     ELSE None]

\* A row written before: every key set, every rate limit 10.
EarlierIntegration ==
  [f \in FieldSet |->
     IF f \in {KeyFields[i] : i \in 1..Len(KeyFields)} THEN Some("key-1")
     ELSE Some(10)]

\* The bodies of the requests: a field is undefined or carries a value.
IntegrationBodies ==
  [FieldSet -> {None}]
    \cup {[f \in FieldSet |->
             IF f \notin given THEN None
             ELSE IF f \in {KeyFields[i] : i \in 1..Len(KeyFields)}
               THEN Some("key-2")
             ELSE Some(30)] : given \in SUBSET FieldSet}

\* updates: the fields of the body that are not undefined, in order; the
\* i-th is written "field = $i", paramIndex starting at 1.
Updates(body) ==
  FilterAt(IntegrationFields,
           {i \in 1..Len(IntegrationFields) :
              body[IntegrationFields[i]] # None})

\* values, before organizationId is pushed: key || null for a key, the
\* number for a rate limit.
UpdateValues(body) ==
  [i \in 1..Len(Updates(body)) |->
     LET field == Updates(body)[i]
     IN  IF /\ field \in {KeyFields[k] : k \in 1..Len(KeyFields)}
            /\ ~TruthyStr(body[field][1])
           THEN None
         ELSE body[field]]

\* The parameters of the query: [organizationId, ...values.slice(0, -1)]
QueryParams(org, body) == <<Some(org)>> \o UpdateValues(body)

\* The statement refers to $1 in VALUES and to $1..$n in the n
\* assignments of DO UPDATE SET; the server rejects a Bind that supplies
\* another number of parameters than the statement refers to.
StatementAccepted(updates, params) ==
  Len(params) = (IF Len(updates) > 1 THEN Len(updates) ELSE 1)

\* INSERT INTO api_integrations ... ON CONFLICT (organization_id) DO
\* UPDATE SET field_i = $i: without a row of the organization the row of
\* VALUES is inserted; with one, each field named takes the parameter its
\* placeholder names.
UpsertIntegration(table, org, updates, params) ==
  IF org \notin DOMAIN table THEN (org :> DefaultIntegration) @@ table
  ELSE [table EXCEPT
          ![org] = [f \in FieldSet |->
                      IF \E i \in 1..Len(updates) : updates[i] = f
                        THEN params[CHOOSE i \in 1..Len(updates) :
                                      updates[i] = f]
                      ELSE table[org][f]]]

\* PATCH /api-integrations: 400 without a field; an error of the query
\* reaches the error handler, which answers 500.
PatchApiIntegrations(org, body) ==
  LET updates == Updates(body)
      params == QueryParams(org, body)
      status == IF Len(updates) = 0 THEN 400
                ELSE IF StatementAccepted(updates, params) THEN 200
                ELSE 500
  IN  /\ apiIntegrations' =
           IF status = 200
             THEN UpsertIntegration(apiIntegrations, org, updates, params)
           ELSE apiIntegrations
      /\ settingsRes' = Some([organizationId |-> org, body |-> body,
                              status |-> status])
      /\ UNCHANGED <<workerVars, limiterVars, apiVars, timerVars,
                     serviceVars>>
      /\ UNCHANGED <<adapterOut, summaryOut, storedScore, competitorRes,
                     alertRes>>

\* ------------------------------------------------------------------------
\* routes/alerts.ts: PATCH /:id/read, POST /mark-all-read, DELETE /:id
\* ------------------------------------------------------------------------
MaxAlerts == 2   \* rows of the alerts table

UserId == "user-1"

\* createAlert called with the organization of the project.
CreateAlertFor(org, project) ==
  /\ Len(alerts) < MaxAlerts
  /\ alerts' = CreateAlert(alerts,
                 [AlertData("new_citation", "info", "gemini", None, None,
                            None)
                    EXCEPT !.organization_id = org, !.project_id = project])
  /\ UNCHANGED <<jobs, keywords, lastTrackedAt, citations, alertLog, clock,
                 deliveries, slot>>
  /\ UNCHANGED <<limiterVars, apiVars, timerVars, serviceVars, routeVars>>

\* UPDATE alerts SET is_read = true, read_by = $3 with no condition on
\* organization_id.
MarkReadRows_AnyOrganization(table, id, org, user) ==
  [i \in 1..Len(table) |->
     IF table[i].id = id
       THEN [table[i] EXCEPT !.is_read = TRUE, !.read_by = Some(user)]
     ELSE table[i]]

\* UPDATE alerts SET is_read = true, read_at = NOW(), read_by = $3
\* WHERE id = $1 AND organization_id = $2
MarkReadRows(table, id, org, user) ==
  [i \in 1..Len(table) |->
     IF table[i].id = id /\ table[i].organization_id = org
       THEN [table[i] EXCEPT !.is_read = TRUE, !.read_by = Some(user)]
     ELSE table[i]]

AlertAnswer(op, id, org, status) ==
  alertRes' = Some([op |-> op, id |-> id, organizationId |-> org,
                    status |-> status])

\* PATCH /:id/read: 404 when the UPDATE returns no row.
MarkRead(id, org, user) ==
  /\ alerts' = MarkReadRows(alerts, id, org, user)
  /\ AlertAnswer("markRead", id, org,
                 IF \E i \in 1..Len(alerts) :
                      alerts[i].id = id /\ alerts[i].organization_id = org
                   THEN 200 ELSE 404)
  /\ UNCHANGED <<jobs, keywords, lastTrackedAt, citations, alertLog, clock,
                 deliveries, slot>>
  /\ UNCHANGED <<limiterVars, apiVars, timerVars, serviceVars>>
  /\ UNCHANGED <<adapterOut, summaryOut, storedScore, competitorRes,
                 apiIntegrations, settingsRes>>

\* POST /mark-all-read: UPDATE alerts SET is_read = true, read_by = $2
\* WHERE organization_id = $1 AND is_read = false [AND project_id = $3]
MarkAllRead(org, user, project) ==
  /\ alerts' =
       [i \in 1..Len(alerts) |->
          IF /\ alerts[i].organization_id = org
             /\ ~alerts[i].is_read
             /\ (project # None => alerts[i].project_id = project[1])
            THEN [alerts[i] EXCEPT !.is_read = TRUE, !.read_by = Some(user)]
          ELSE alerts[i]]
  /\ AlertAnswer("markAllRead", Null, org, 200)
  /\ UNCHANGED <<jobs, keywords, lastTrackedAt, citations, alertLog, clock,
                 deliveries, slot>>
  /\ UNCHANGED <<limiterVars, apiVars, timerVars, serviceVars>>
  /\ UNCHANGED <<adapterOut, summaryOut, storedScore, competitorRes,
                 apiIntegrations, settingsRes>>

\* DELETE /:id: DELETE FROM alerts WHERE id = $1 AND organization_id = $2;
\* 404 when it returns no row.
DeleteAlert(id, org) ==
  /\ alerts' = SelectSeq(alerts, LAMBDA a : ~(a.id = id
                                              /\ a.organization_id = org))
  /\ AlertAnswer("deleteAlert", id, org,
                 IF \E i \in 1..Len(alerts) :
                      alerts[i].id = id /\ alerts[i].organization_id = org
                   THEN 200 ELSE 404)
  /\ UNCHANGED <<jobs, keywords, lastTrackedAt, citations, alertLog, clock,
                 deliveries, slot>>
  /\ UNCHANGED <<limiterVars, apiVars, timerVars, serviceVars>>
  /\ UNCHANGED <<adapterOut, summaryOut, storedScore, competitorRes,
                 apiIntegrations, settingsRes>>

\* ------------------------------------------------------------------------
\* Specifications
\* ------------------------------------------------------------------------
Init ==
  /\ \E p \in Platforms : jobs = [j \in JobIds |-> NewJob(p)]
  /\ keywords = {KeywordId}
  /\ lastTrackedAt = Null
  /\ citations = {}
  /\ alerts = <<>>
  /\ alertLog = <<>>
  /\ clock = 1
  /\ deliveries = 0
  /\ slot = [w \in Slots |-> IdleSlot]
  /\ requestTimestamps = <<>>
  /\ now = 0
  /\ caller = [c \in Callers |-> IdleCaller]
  /\ started = <<>>
  /\ scheduleLog = <<>>
  /\ quickTest = None
  /\ timerAt = Null
  /\ dailyRuns = 0
  /\ projects = (ProjectId :> ProjectRow(PrimaryDomain, <<>>))
  /\ competitorReq = [r \in Reqs |-> IdleReq]
  /\ scoreRun = IdleScoreRun
  /\ dailyMetrics = <<>>
  /\ generatedFrom = [d \in MetricDates |-> None]
  /\ projectRun = None
  /\ sentimentOut = None
  /\ adapterOut = None
  /\ summaryOut = None
  /\ storedScore = None
  /\ competitorRes = [r \in Reqs |-> None]
  /\ apiIntegrations = <<>>
  /\ settingsRes = None
  /\ alertRes = None

\* The same, for a project whose primary_domain is a host of one label.
InitIntranet ==
  /\ \E p \in Platforms : jobs = [j \in JobIds |-> NewJob(p)]
  /\ keywords = {KeywordId}
  /\ lastTrackedAt = Null
  /\ citations = {}
  /\ alerts = <<>>
  /\ alertLog = <<>>
  /\ clock = 1
  /\ deliveries = 0
  /\ slot = [w \in Slots |-> IdleSlot]
  /\ requestTimestamps = <<>>
  /\ now = 0
  /\ caller = [c \in Callers |-> IdleCaller]
  /\ started = <<>>
  /\ scheduleLog = <<>>
  /\ quickTest = None
  /\ timerAt = Null
  /\ dailyRuns = 0
  /\ projects = (ProjectId :> ProjectRow(IntranetDomain, <<>>))
  /\ competitorReq = [r \in Reqs |-> IdleReq]
  /\ scoreRun = IdleScoreRun
  /\ dailyMetrics = <<>>
  /\ generatedFrom = [d \in MetricDates |-> None]
  /\ projectRun = None
  /\ sentimentOut = None
  /\ adapterOut = None
  /\ summaryOut = None
  /\ storedScore = None
  /\ competitorRes = [r \in Reqs |-> None]
  /\ apiIntegrations = <<>>
  /\ settingsRes = None
  /\ alertRes = None

\* The Citation an earlier job of the keyword stored at the given time for
\* an answer that cites the project's site first.
EarlierCitation(platform, trackedAt) ==
  TrackResult(AnswerResponse(<<Cit(WwwDomain, 1)>>), KeywordId,
              PrimaryDomain, platform, trackedAt).citation[1]

\* The same as Init, after two earlier jobs of the keyword have stored
\* their Citations.
InitTracked ==
  /\ \E p \in Platforms :
       /\ jobs = [j \in JobIds |-> NewJob(p)]
       /\ citations = {EarlierCitation(p, 1), EarlierCitation(p, 2)}
  /\ keywords = {KeywordId}
  /\ lastTrackedAt = Null
  /\ alerts = <<>>
  /\ alertLog = <<>>
  /\ clock = 3
  /\ deliveries = 0
  /\ slot = [w \in Slots |-> IdleSlot]
  /\ requestTimestamps = <<>>
  /\ now = 0
  /\ caller = [c \in Callers |-> IdleCaller]
  /\ started = <<>>
  /\ scheduleLog = <<>>
  /\ quickTest = None
  /\ timerAt = Null
  /\ dailyRuns = 0
  /\ projects = (ProjectId :> ProjectRow(PrimaryDomain, <<>>))
  /\ competitorReq = [r \in Reqs |-> IdleReq]
  /\ scoreRun = IdleScoreRun
  /\ dailyMetrics = <<>>
  /\ generatedFrom = [d \in MetricDates |-> None]
  /\ projectRun = None
  /\ sentimentOut = None
  /\ adapterOut = None
  /\ summaryOut = None
  /\ storedScore = None
  /\ competitorRes = [r \in Reqs |-> None]
  /\ apiIntegrations = <<>>
  /\ settingsRes = None
  /\ alertRes = None

\* The same as Init, with or without a row of api_integrations written
\* before for the first organization.
InitSettings ==
  /\ \E p \in Platforms : jobs = [j \in JobIds |-> NewJob(p)]
  /\ keywords = {KeywordId}
  /\ lastTrackedAt = Null
  /\ citations = {}
  /\ alerts = <<>>
  /\ alertLog = <<>>
  /\ clock = 1
  /\ deliveries = 0
  /\ slot = [w \in Slots |-> IdleSlot]
  /\ requestTimestamps = <<>>
  /\ now = 0
  /\ caller = [c \in Callers |-> IdleCaller]
  /\ started = <<>>
  /\ scheduleLog = <<>>
  /\ quickTest = None
  /\ timerAt = Null
  /\ dailyRuns = 0
  /\ projects = (ProjectId :> ProjectRow(PrimaryDomain, <<>>))
  /\ competitorReq = [r \in Reqs |-> IdleReq]
  /\ scoreRun = IdleScoreRun
  /\ dailyMetrics = <<>>
  /\ generatedFrom = [d \in MetricDates |-> None]
  /\ projectRun = None
  /\ sentimentOut = None
  /\ adapterOut = None
  /\ summaryOut = None
  /\ storedScore = None
  /\ competitorRes = [r \in Reqs |-> None]
  /\ apiIntegrations \in {<<>>, ("org-1" :> EarlierIntegration)}
  /\ settingsRes = None
  /\ alertRes = None

\* The tracking worker.
Next ==
  \/ \E w \in Slots, j \in JobIds : Deliver(w, j)
  \/ \E w \in Slots : MarkProcessing(w)
  \/ \E w \in Slots : LoadKeyword(w)
  \/ \E w \in Slots : TrackOnPlatform(w)
  \/ \E w \in Slots : StoreCitation(w)
  \/ \E w \in Slots : UpdateKeywordTrackingTime(w)
  \/ \E w \in Slots : MarkCompleted(w)
  \/ \E w \in Slots : QueryPrevious(w)
  \/ \E w \in Slots : EmitAlert(w)
  \/ \E w \in Slots : MarkFailed(w)
  \/ DeleteKeyword

Spec == Init /\ [][Next]_vars

\* One adapter and the concurrent callers of its query().
NextLimiter ==
  \/ \E c \in Callers : EnterRateLimit(c)
  \/ \E c \in Callers : WakeRateLimit(c)
  \/ Tick

SpecLimiter == Init /\ [][NextLimiter]_vars

\* The route POST /schedule.
NextSchedule ==
  \E body \in ScheduleBodies : Schedule(body)

SpecSchedule == Init /\ [][NextSchedule]_vars

\* The route POST /quick-test, on a store in which the keyword of the
\* project may get deleted.
NextQuickTest ==
  \/ \E body \in QuickTestBodies, responses \in [Configured -> Responses] :
       QuickTest(body, responses)
  \/ DeleteKeyword

SpecQuickTest == Init /\ [][NextQuickTest]_vars

\* The timer of the daily tracking.
NextTimer ==
  \/ \E t \in StartTimes : StartWorker(t)
  \/ \E delay \in TimerDelays : DailyTimerTick(delay)

SpecTimer == Init /\ [][NextTimer]_vars

\* The tracking worker on the project whose primary_domain has one label.
SpecIntranet == InitIntranet /\ [][Next]_vars

\* The tracking worker on a keyword tracked twice before.
SpecTracked == InitTracked /\ [][Next]_vars

\* The tracking worker and the shutdown of its process.  An invocation in
\* flight takes its next step unless the process is shut down, and the
\* broker hands out the deliveries it has.
WorkerStep(w) ==
  \/ MarkProcessing(w)
  \/ LoadKeyword(w)
  \/ TrackOnPlatform(w)
  \/ StoreCitation(w)
  \/ UpdateKeywordTrackingTime(w)
  \/ MarkCompleted(w)
  \/ QueryPrevious(w)
  \/ EmitAlert(w)
  \/ MarkFailed(w)

NextRestart ==
  \/ \E w \in Slots, j \in JobIds : Deliver(w, j)
  \/ \E w \in Slots : WorkerStep(w)
  \/ Shutdown

SpecRestart ==
  /\ Init
  /\ [][NextRestart]_vars
  /\ \A w \in Slots : WF_vars(WorkerStep(w))
  /\ WF_vars(\E w \in Slots, j \in JobIds : Deliver(w, j))

\* trackProject on a store in which the keyword may get deleted.
NextProjectRun ==
  \/ \E options \in {None} \cup {Some(l) : l \in PlatformLists} :
       TrackProjectSelect(options)
  \/ \E responses \in [Configured -> Responses] :
       TrackProjectKeyword(responses)
  \/ DeleteKeyword

SpecProjectRun == Init /\ [][NextProjectRun]_vars

\* The project and competitor routes: a project is created, and the
\* project that exists is updated and has competitors added and removed.
NextProjects ==
  \/ \E body \in CreateBodies : CreateProject(body)
  \/ \E body \in UpdateBodies : UpdateProject(ProjectId, body)
  \/ \E r \in Reqs, domain \in {PrimaryDomain, Rivals(10)[10], SubDomain} :
       AddCompetitorSelect(r, ProjectId, domain)
  \/ \E r \in Reqs : AddCompetitorUpdate(r)
  \/ \E r \in Reqs, domain \in {Rivals(1)[1]} :
       RemoveCompetitorSelect(r, ProjectId, domain)
  \/ \E r \in Reqs : RemoveCompetitorUpdate(r)

SpecProjects == Init /\ [][NextProjects]_vars

\* calculateVisibilityScore on a store that tracking runs and the deletion
\* of the keyword change.
NextScoring ==
  \/ \E t \in ScoreTracks, answer \in ScoreAnswers :
       TrackAndStore(t[1], t[2], answer)
  \/ DeleteKeyword
  \/ QueryAggregates
  \/ QueryKeywords
  \/ QueryThisWeek
  \/ QueryLastWeek

SpecScoring == Init /\ [][NextScoring]_vars

\* generateDailyMetrics on the same store.
NextMetrics ==
  \/ \E t \in ScoreTracks, answer \in ScoreAnswers :
       TrackAndStore(t[1], t[2], answer)
  \/ DeleteKeyword
  \/ \E date \in MetricDates : GenerateDailyMetrics(date)

SpecMetrics == Init /\ [][NextMetrics]_vars

\* analyzeSentiment on the texts and the domains of the model.
NextSentiment ==
  \E text \in Texts, domain \in {PrimaryDomain, IntranetDomain} :
    Analyze(text, domain)

SpecSentiment == Init /\ [][NextSentiment]_vars


\* The four adapters on the answers of the model.
NextAdapters ==
  \/ \E response \in GeminiResponses : GeminiQuery(response)
  \/ \E citationUrls \in UrlLists : PerplexityQuery(citationUrls)
  \/ \E refs \in UrlLists : SearchWithAIOOverview(refs)
  \/ \E items \in OpenAITexts : OpenAIQuery(items)

SpecAdapters == Init /\ [][NextAdapters]_vars

\* generateSummary on the texts of the model.
NextSummary == \E text \in SummaryTexts : Summarize(text)

SpecSummary == Init /\ [][NextSummary]_vars

\* calculateVisibilityScore on the query answers of the model.
NextGrade ==
  \E row \in AggregateRows, totalKeywords \in 1..MaxActiveKeywords,
     thisWeek \in 0..MaxCitationCount, lastWeek \in 0..MaxCitationCount :
    StoreVisibilityScore(row, totalKeywords, thisWeek, lastWeek)

SpecGrade == Init /\ [][NextGrade]_vars

\* PATCH /api-integrations by the organizations, over the table as it is
\* created and over a table that holds a row.
NextSettings ==
  \E org \in Organizations, body \in IntegrationBodies :
    PatchApiIntegrations(org, body)

SpecSettings == InitSettings /\ [][NextSettings]_vars

\* The alert routes, called by the users of two organizations on the
\* alerts of their projects.
NextAlerts ==
  \/ \E org \in Organizations, project \in {ProjectId, SecondProjectId} :
       CreateAlertFor(org, project)
  \/ \E id \in 1..MaxAlerts, org \in Organizations : MarkRead(id, org, UserId)
  \/ \E org \in Organizations,
        project \in {None, Some(ProjectId), Some(SecondProjectId)} :
       MarkAllRead(org, UserId, project)
  \/ \E id \in 1..MaxAlerts, org \in Organizations : DeleteAlert(id, org)

SpecAlerts == Init /\ [][NextAlerts]_vars

\* ------------------------------------------------------------------------
\* Properties
\* ------------------------------------------------------------------------
\* MAX_RETRIES of the specification (default 3); the worker reads no such
\* setting.
MaxRetries == 3

RowExists(j) == jobs[j].status # "deleted"

\* The step of invocation w that leaves the program point pc.
Leaves(w, pc) == slot[w].pc = pc /\ slot'[w].pc # pc

\* The result the worker uses, and the citation in it.
ResultOf(w) == slot[w].results[1]
CurrentOf(w) == ResultOf(w).citation

\* C1: in every 60-second window (t - 60000, t] the number of upstream
\* calls started on the adapter is at most its per-minute cap.
C1_StartsWithinCap ==
  \A i \in 1..Len(started) :
    Cardinality({k \in 1..Len(started) :
                   /\ started[k] > started[i] - WindowMs
                   /\ started[k] <= started[i]}) <= RateLimitPerMinute

\* C2: a delivery that finds the row of its job processing, completed or
\* failed is discarded: it leaves the row as it is and ends there.
C2_DeliveryDiscardedUnlessPendingOrRetrying ==
  [][\A w \in Slots :
       (/\ Leaves(w, "markProcessing")
        /\ jobs[JobOf(w)].status \in {"processing", "completed", "failed"})
       => (jobs' = jobs /\ slot'[w].pc = "idle")]_vars

\* C3: the exception handler adds one to retry_count and sets the status to
\* retrying while the new retry_count is below maxRetries, to failed
\* otherwise.
C3_RetryingBelowMaxRetries ==
  [][\A w \in Slots :
       (Leaves(w, "catch") /\ RowExists(JobOf(w)))
       => /\ jobs'[JobOf(w)].retry_count = jobs[JobOf(w)].retry_count + 1
          /\ jobs'[JobOf(w)].status =
               IF jobs'[JobOf(w)].retry_count < MaxRetries THEN "retrying"
               ELSE "failed"]_vars

\* C4: once the status of a job is completed or failed, no step of the
\* worker changes it.
C4_TerminalStatusKept ==
  [][\A j \in JobIds :
       (jobs[j].status \in {"completed", "failed"} /\ RowExists(j)')
       => jobs'[j].status = jobs[j].status]_vars

\* C5: an attempt persists a Citation only if its adapter call succeeded:
\* never when the adapter reported an error or the provider is not
\* configured.
C5_NoCitationForFailedAdapterCall ==
  \A w \in Slots : slot[w].stored => slot[w].adapter = "answer"

\* C6: after an adapter error the worker does not mark the job completed:
\* the job becomes retrying and its retry_count grows by one.
C6_AdapterErrorMakesJobRetrying ==
  [][\A w \in Slots :
       (/\ Leaves(w, "markCompleted")
        /\ slot[w].adapter = "error"
        /\ ~ResultOf(w).success
        /\ RowExists(JobOf(w)))
       => /\ jobs'[JobOf(w)].status = "retrying"
          /\ jobs'[JobOf(w)].retry_count = jobs[JobOf(w)].retry_count + 1]_vars

\* C7: when the write of the Citation failed after a successful adapter
\* call, the job becomes retrying and citation_found is not stamped.
C7_StoreErrorMakesJobRetrying ==
  [][\A w \in Slots :
       (/\ Leaves(w, "markCompleted")
        /\ ResultOf(w).success
        /\ ~slot[w].stored
        /\ RowExists(JobOf(w)))
       => /\ jobs'[JobOf(w)].status = "retrying"
          /\ jobs'[JobOf(w)].citation_found = jobs[JobOf(w)].citation_found]_vars

\* The Citations stored for the (keyword, platform) of invocation w before
\* its own.
EarlierCitations(w) ==
  {c \in citations : /\ c.keyword_id = KeywordId
                     /\ c.platform = ResultOf(w).platform
                     /\ c.tracked_at < CurrentOf(w)[1].tracked_at}

\* The step in which invocation w, having stored its Citation and read the
\* previous one, runs the alert rules of checkForAlerts and ends.
AlertCheck(w) ==
  /\ Leaves(w, "emitAlert")
  /\ slot[w].stored

\* The createAlert call made in the step, if any.
Emitted ==
  IF Len(alertLog') > Len(alertLog) THEN Some(alertLog'[Len(alertLog')])
  ELSE None

NewCitationAlerts ==
  {i \in 1..Len(alerts) : /\ alerts[i].alert_type = "new_citation"
                          /\ alerts[i].severity = "info"
                          /\ alerts[i].project_id = ProjectId}

\* C8: when a job has stored a Citation that mentions the domain and no
\* earlier Citation of the (keyword, platform) exists, its alert check
\* leaves exactly one new_citation alert of severity info for the project
\* in the alerts table.
C8_NewCitationAlertPersisted ==
  [][\A w \in Slots :
       (/\ AlertCheck(w)
        /\ CurrentOf(w)[1].domain_mentioned
        /\ CurrentOf(w)[1] \in citations
        /\ EarlierCitations(w) = {})
       => Cardinality(NewCitationAlerts') = 1]_vars

\* The case of C9: the alert check of w compares a previous Citation that
\* mentions the domain with a stored Citation that does not.
LostCase(w) ==
  /\ AlertCheck(w)
  /\ slot[w].previous # None
  /\ slot[w].previous[1].domain_mentioned
  /\ ~CurrentOf(w)[1].domain_mentioned

BothPositioned(w) ==
  /\ AlertCheck(w)
  /\ slot[w].previous # None
  /\ slot[w].previous[1].domain_mentioned
  /\ CurrentOf(w)[1].domain_mentioned
  /\ slot[w].previous[1].citation_position # Null
  /\ CurrentOf(w)[1].citation_position # Null

IsPositionChange ==
  Emitted # None /\ Emitted[1].alert_type = "position_change"

\* C10: in that case a position_change alert is emitted if and only if the
\* positions differ by 2 or more; it is info when the position improved and
\* warning when it worsened, and its change_percent is
\* (prev - curr) / prev * 100.
C10_PositionChangeAlert ==
  [][\A w \in Slots :
       BothPositioned(w)
       => LET prev == slot[w].previous[1].citation_position
              curr == CurrentOf(w)[1].citation_position
          IN  /\ IsPositionChange <=> Abs(prev - curr) >= 2
              /\ IsPositionChange
                 => /\ Emitted[1].severity =
                         IF curr < prev THEN "info" ELSE "warning"
                    /\ Emitted[1].change_percent =
                         Some(RoundDiv((prev - curr) * 10000, prev))]_vars

\* ------------------------------------------------------------------------
\* The alert rules and the alert log
\* ------------------------------------------------------------------------
\* The alerts emitted in the step.
EmittedTypes ==
  {alertLog'[i].alert_type : i \in (Len(alertLog) + 1)..Len(alertLog')}

\* C11: when the previous and the current Citation differ in sentiment and
\* the current one mentions the domain, the alert check emits a
\* sentiment_shift alert, of severity warning if the new sentiment is
\* negative and info otherwise.
C11_SentimentShiftAlert ==
  [][\A w \in Slots :
       (/\ AlertCheck(w)
        /\ slot[w].previous # None
        /\ slot[w].previous[1].sentiment # CurrentOf(w)[1].sentiment
        /\ CurrentOf(w)[1].domain_mentioned)
       => \E i \in (Len(alertLog) + 1)..Len(alertLog') :
            /\ alertLog'[i].alert_type = "sentiment_shift"
            /\ alertLog'[i].severity =
                 IF CurrentOf(w)[1].sentiment = "negative" THEN "warning"
                 ELSE "info"]_vars

\* The Citation of (keywordId, platform) with the greatest tracked_at
\* strictly before t, if any.
LatestBefore(table, keywordId, platform, t) ==
  LET rows == {c \in table : /\ c.keyword_id = keywordId
                             /\ c.platform = platform
                             /\ c.tracked_at < t}
  IN  IF rows = {} THEN None
      ELSE Some(CHOOSE c \in rows : \A d \in rows : d.tracked_at <= c.tracked_at)

\* C12: the previous citation that the alert check of a job reads is the
\* Citation of the same (keyword, platform) with the greatest tracked_at
\* strictly before the job's own new Citation.
C12_PreviousIsLatestBefore ==
  [][\A w \in Slots :
       (/\ Leaves(w, "queryPrevious")
        /\ slot'[w].queried
        /\ CurrentOf(w) # None)
       => slot'[w].previous =
            LatestBefore(citations, KeywordId, PlatformOf(w),
                         CurrentOf(w)[1].tracked_at)]_vars

\* The transition classes of section 4.7 between a Citation and the one
\* before it in the stream (None for the first).
TransitionClasses(previous, current) ==
  {k \in {"new_citation", "lost_citation", "position_change",
          "sentiment_shift"} :
     \/ /\ k = "new_citation"
        /\ previous = None
        /\ current.domain_mentioned
     \/ /\ k = "lost_citation"
        /\ previous # None
        /\ previous[1].domain_mentioned
        /\ ~current.domain_mentioned
     \/ /\ k = "position_change"
        /\ previous # None
        /\ previous[1].domain_mentioned
        /\ current.domain_mentioned
        /\ previous[1].citation_position # Null
        /\ current.citation_position # Null
        /\ Abs(previous[1].citation_position - current.citation_position) >= 2
     \/ /\ k = "sentiment_shift"
        /\ previous # None
        /\ previous[1].sentiment # current.sentiment
        /\ current.domain_mentioned}

\* The Citations of the stream of a platform whose transition is of class k.
TransitionsOf(platform, k) ==
  {c \in citations :
     /\ c.keyword_id = KeywordId
     /\ c.platform = platform
     /\ k \in TransitionClasses(LatestBefore(citations, KeywordId, platform,
                                             c.tracked_at), c)}

AlertsOf(platform, k) ==
  {i \in 1..Len(alertLog) : /\ alertLog[i].platform = platform
                            /\ alertLog[i].alert_type = k}

Quiescent == \A w \in Slots : slot[w].pc = "idle"

\* C13: when no job is in flight, the alerts emitted for a (keyword,
\* platform) are one per transition of its stream of Citations, for each of
\* the classes new, lost, position change and sentiment shift.
C13_OneAlertPerTransition ==
  (Quiescent /\ KeywordId \in keywords)
  => \A platform \in Platforms :
       \A k \in {"new_citation", "lost_citation", "position_change",
                 "sentiment_shift"} :
         Cardinality(AlertsOf(platform, k))
           = Cardinality(TransitionsOf(platform, k))

\* C14: a failure of the query for the previous citation, or of the INSERT
\* of an alert, changes neither the row of the job nor the citations, and
\* the invocation ends without entering its exception handler.
C14_AlertFailureKeepsOutcome ==
  [][\A w \in Slots :
       (\/ Leaves(w, "queryPrevious") /\ ~slot'[w].queried
        \/ Leaves(w, "emitAlert") /\ EmittedTypes # {} /\ alerts' = alerts)
       => /\ jobs' = jobs
          /\ citations' = citations
          /\ slot'[w].pc = "idle"]_vars

\* An alert was emitted and its INSERT failed; the job is completed with its
\* result stamped and its Citation is stored.
C14_Witness ==
  /\ Quiescent
  /\ alertLog # <<>>
  /\ alerts = <<>>
  /\ \E j \in JobIds :
       /\ jobs[j].status = "completed"
       /\ jobs[j].citation_found = Some(TRUE)
       /\ jobs[j].result_data # None
       /\ jobs[j].result_data[1].citation # None
       /\ jobs[j].result_data[1].citation[1] \in citations

\* C18: trackKeyword, called by the worker with the one platform of the
\* job, returns exactly one TrackResult, that of this platform.
C18_OneResultPerPlatform ==
  \A w \in Slots :
    slot[w].pc = "markCompleted"
    => /\ Len(slot[w].results) = 1
       /\ slot[w].results[1].platform = PlatformOf(w)

\* C19: every stored Citation that does not mention the domain has neither
\* a citation_position nor a citation_context.
C19_NoPositionWithoutMention ==
  \A c \in citations :
    ~c.domain_mentioned
    => (c.citation_position = Null /\ c.citation_context = None)

\* A stored Citation does not mention the domain although the answer cited
\* a source.
C19_Witness ==
  \E c \in citations :
    /\ ~c.domain_mentioned
    /\ c.total_sources_cited > 0
    /\ c.citation_position = Null

\* C20: every stored Citation has total_sources_cited = (1 if it mentions
\* the domain, else 0) + the number of its competitor citations.
C20_TotalSourcesCited ==
  \A c \in citations :
    c.total_sources_cited
      = (IF c.domain_mentioned THEN 1 ELSE 0) + Len(c.competitor_citations)

\* ------------------------------------------------------------------------
\* The tracking routes and the daily timer
\* ------------------------------------------------------------------------
PendingWithKey(keywordId, platform, scheduledAt) ==
  {id \in DOMAIN jobs : /\ jobs[id].status = "pending"
                        /\ jobs[id].keyword_id = keywordId
                        /\ jobs[id].platform = platform
                        /\ jobs[id].scheduled_at = scheduledAt}

\* C15: after POST /schedule has been called twice with the same project,
\* keywords, platforms and scheduled_at, no two pending rows of
\* tracking_jobs have the same (project_id, keyword_id, platform,
\* scheduled_at).
C15_ScheduleIdempotent ==
  (/\ Len(scheduleLog) = 2
   /\ scheduleLog[1] = scheduleLog[2]
   /\ scheduleLog[1].scheduled_at # None)
  => \A id \in DOMAIN jobs :
       Cardinality(PendingWithKey(jobs[id].keyword_id, jobs[id].platform,
                                  jobs[id].scheduled_at)) = 1

\* C16: a worker started before 02:00 has, once 02:01 is reached, started
\* the daily tracking exactly once.
C16_DailyRunOncePerDay ==
  (timerAt # Null /\ GetHours(timerAt) = DailyHour
                  /\ GetMinutes(timerAt) > DailyMinute)
  => dailyRuns = 1

\* C17: a POST /quick-test request changes neither the citations table nor
\* last_tracked_at of a keyword, whatever it answers.
C17_QuickTestKeepsStore ==
  [][quickTest' # quickTest
     => (citations' = citations /\ lastTrackedAt' = lastTrackedAt)]_vars

\* A quick test whose adapter call succeeded and found the domain has been
\* served, and the citations table is empty.
C17_Witness ==
  /\ quickTest # None
  /\ \E i \in 1..Len(quickTest[1].results) :
       /\ quickTest[1].results[i].success
       /\ quickTest[1].results[i].citation[1].domain_mentioned
       /\ quickTest[1].results[i].citation[1].keyword_id = TestId
  /\ citations = {}
  /\ lastTrackedAt = Null

\* ------------------------------------------------------------------------
\* Properties of the scoring service
\* ------------------------------------------------------------------------
\* The citations tracking runs can put into the scoring store, and the
\* stores they can make up.
ScoreStores ==
  {C \in SUBSET {TrackResultOf(AnswerResponse(answer), t[1], t[2]).citation[1] :
                   t \in ScoreTracks, answer \in ScoreAnswers} :
     Cardinality(C) <= MaxScoreRows}

\* C21: the four reads of one calculateVisibilityScore run observe one
\* snapshot of the store: there is one set of citations and keywords from
\* which the per-platform aggregates, the number of active keywords and
\* the counts of this week and of last week of the run all follow.
C21_ScoreReadsOneSnapshot ==
  scoreRun.pc = "done" =>
    \E C \in ScoreStores, K \in SUBSET {KeywordId} :
      /\ K = {} => C = {}
      /\ scoreRun.rows = CitationAggregates(C, ScoreToday - 30)
      /\ scoreRun.totalKeywords = ActiveKeywordCount(K)
      /\ scoreRun.thisWeek = ThisWeekCount(C, ScoreToday)
      /\ scoreRun.lastWeek = LastWeekCount(C, ScoreToday)

\* Scores are kept in hundredths.
InScoreRange(x) == 0 <= x /\ x <= 10000

\* C22: each of the five component scores and the overall score that
\* calculateVisibilityScore returns lies in [0, 100].
C22_ScoresWithinRange ==
  scoreRun.pc = "done" =>
    /\ InScoreRange(ScoreOf(scoreRun).frequency_score)
    /\ InScoreRange(ScoreOf(scoreRun).position_score)
    /\ InScoreRange(ScoreOf(scoreRun).diversity_score)
    /\ InScoreRange(ScoreOf(scoreRun).context_score)
    /\ InScoreRange(ScoreOf(scoreRun).momentum_score)
    /\ InScoreRange(ScoreOf(scoreRun).overall_score)

\* C23: generateDailyMetrics is idempotent: a run for a date that reads the
\* citations its previous run for that date read leaves every row of
\* daily_metrics as it was, field by field, and the table never holds two
\* rows of one (project_id, date, platform).
C23_DailyMetricsIdempotent ==
  [][/\ dailyMetrics' # dailyMetrics =>
          \E date \in MetricDates :
            /\ generatedFrom'[date] # generatedFrom[date]
            /\ \/ generatedFrom[date] = None
               \/ generatedFrom'[date][1].read # generatedFrom[date][1].read
     /\ \A i, k \in 1..Len(dailyMetrics') :
          DailyMetricKey(dailyMetrics'[i]) = DailyMetricKey(dailyMetrics'[k])
            => i = k]_vars

\* C23, its case: generateDailyMetrics has been run again for a date over
\* the same citations, two platforms among them, and the table holds
\* their rows.
C23_Witness ==
  \E date \in MetricDates :
    /\ generatedFrom[date] # None
    /\ generatedFrom[date][1].rerun
    /\ Cardinality({c.platform : c \in generatedFrom[date][1].read}) = 2
    /\ Len(dailyMetrics) >= 2

\* ------------------------------------------------------------------------
\* Properties of the project and competitor routes
\* ------------------------------------------------------------------------
\* C24: no project's primary_domain appears in its competitor_domains.
C24_PrimaryNotACompetitor ==
  \A id \in DOMAIN projects :
    ~ArrayIncludes(projects[id].competitor_domains,
                   projects[id].primary_domain)

\* C25: every project has at most 10 competitor_domains.
C25_AtMostTenCompetitors ==
  \A id \in DOMAIN projects :
    Len(projects[id].competitor_domains) <= CompetitorLimit

\* ------------------------------------------------------------------------
\* Properties of analyzeSentiment
\* ------------------------------------------------------------------------
\* C30: analyzeSentiment returns neutral for a text that does not name the
\* domain, and positive for the text "Acme.com is a leading provider." with
\* the domain acme.com: its one sentence names the domain and holds one
\* word of the positive lexicon and none of the negative one.
C30_SentimentOfNamingSentences ==
  sentimentOut # None =>
    /\ ~Includes(ToLowerCase(sentimentOut[1].text),
                 DomainString(sentimentOut[1].domain))
         => sentimentOut[1].sentiment = "neutral"
    /\ (sentimentOut[1].text = LeadingText
          /\ sentimentOut[1].domain = PrimaryDomain)
         => sentimentOut[1].sentiment = "positive"

\* ------------------------------------------------------------------------
\* Properties of the worker: missing keyword, shutdown
\* ------------------------------------------------------------------------
\* C26: when the keyword of a job (or its project) no longer exists as the
\* worker loads it, the invocation makes no adapter call and ends with the
\* job marked failed with the error "orphaned".
C26_OrphanedJobMarkedFailed ==
  [][\A w \in Slots :
       (/\ Leaves(w, "catch")
        /\ slot[w].thrown = Some("Keyword not found")
        /\ KeywordId \notin keywords)
       => /\ ~slot[w].queried
          /\ jobs'[JobOf(w)].status = "failed"
          /\ jobs'[JobOf(w)].error_message = Some("orphaned")]_vars

\* C27: no job stays in processing forever: a job that a shutdown of the
\* process left in processing, no invocation working on it, eventually
\* leaves that status.
C27_NoJobStaysProcessing ==
  \A j \in JobIds :
    (jobs[j].status = "processing" /\ \A w \in Slots : slot[w].pc = "idle")
      ~> (jobs[j].status # "processing")

\* ------------------------------------------------------------------------
\* Properties of the rate limiter: order of the blocked callers
\* ------------------------------------------------------------------------
\* C28: callers that the limiter blocked start their upstream calls in the
\* order in which they arrived: none that arrived later has started while
\* one that arrived earlier still sleeps.
C28_BlockedStartInArrivalOrder ==
  \A a, b \in Callers :
    ~(/\ caller[a].pc = "sleeping"
      /\ caller[b].pc = "called"
      /\ caller[b].wake # 0
      /\ caller[a].now < caller[b].now)

\* ------------------------------------------------------------------------
\* Properties of trackProject
\* ------------------------------------------------------------------------
\* C29: the counts trackProject returns tell what the run did:
\* totalKeywords is the number of keywords selected, successfulTracks the
\* number of citations the run persisted, failedTracks the number of
\* (keyword, platform) attempts that persisted none, and newCitations the
\* number of persisted citations with domain_mentioned.
C29_ProjectRunCounts ==
  (projectRun # None /\ projectRun[1].pc = "done") =>
    LET run == projectRun[1]
        attempts == Cardinality(run.keywords) * Len(run.platforms)
    IN  /\ run.totalKeywords = Cardinality(run.keywords)
        /\ run.successfulTracks = Cardinality(run.persisted)
        /\ run.failedTracks = attempts - Cardinality(run.persisted)
        /\ run.newCitations =
             Cardinality({c \in run.persisted : c.domain_mentioned})

\* ------------------------------------------------------------------------
\* Properties of the citation lists of the adapters
\* ------------------------------------------------------------------------
\* C31: in the citation list an adapter returns no url appears more than
\* once.
C31_NoUrlTwice ==
  adapterOut # None =>
    LET cs == adapterOut[1].citations
    IN  \A i, j \in 1..Len(cs) : cs[i].url = cs[j].url => i = j

\* C32: the citation list an adapter returns carries the positions 1..n in
\* order: the i-th citation has position i.
C32_DenseRanks ==
  adapterOut # None =>
    LET cs == adapterOut[1].citations
    IN  \A i \in 1..Len(cs) : cs[i].position = i

\* ------------------------------------------------------------------------
\* Properties of generateSummary
\* ------------------------------------------------------------------------
\* C33: the summary generateSummary returns has at most 500 characters.
C33_SummaryAtMost500 ==
  summaryOut # None =>
    Len(summaryOut[1].response_summary) <= SummaryMaxLength

\* ------------------------------------------------------------------------
\* Properties of generateDailyMetrics over a changed store
\* ------------------------------------------------------------------------
\* C34: when generateDailyMetrics has run for a date, the row of every
\* platform for that date carries the aggregates of the citations stored
\* for the platform and the date: there is exactly such a row when there
\* are citations, and no row or a row of zero counts when there are none.
C34_MetricsOfStoredCitations ==
  [][\A date \in MetricDates :
       GenerateDailyMetrics(date) =>
         \A p \in Platforms :
           LET group == {c \in citations :
                           c.tracked_at = date /\ c.platform = p}
               stored == {i \in 1..Len(dailyMetrics') :
                            /\ dailyMetrics'[i].date = date
                            /\ dailyMetrics'[i].platform = p}
           IN  IF group = {}
                 THEN \A i \in stored :
                        /\ dailyMetrics'[i].total_keywords_tracked = 0
                        /\ dailyMetrics'[i].total_citations = 0
               ELSE /\ stored # {}
                    /\ \A i \in stored :
                         dailyMetrics'[i] = DailyMetric(group, date, p)]_vars

\* ------------------------------------------------------------------------
\* Properties of the stored grade
\* ------------------------------------------------------------------------
\* C35: the overall_grade of a stored VisibilityScore is the grade of the
\* thresholds 90, 80, 70, 60 and 50 for the overall_score stored with it
\* (kept in hundredths).
C35_GradeOfStoredScore ==
  storedScore # None =>
    LET score == storedScore[1].overall_score
    IN  storedScore[1].overall_grade =
          IF score >= 9000 THEN "A+"
          ELSE IF score >= 8000 THEN "A"
          ELSE IF score >= 7000 THEN "B"
          ELSE IF score >= 6000 THEN "C"
          ELSE IF score >= 5000 THEN "D"
          ELSE "F"

\* ------------------------------------------------------------------------
\* Properties of the worker: a failed provider attempt
\* ------------------------------------------------------------------------
\* C36: a job whose provider attempt failed, so that no Citation was
\* written for it, emits no alert: checkForAlerts leaves the alert log as
\* it was.
C36_FailedAttemptEmitsNoAlert ==
  [][\A w \in Slots :
       (/\ EmitAlert(w)
        /\ ~slot[w].results[1].success
        /\ slot[w].results[1].citation = None)
         => alertLog' = alertLog]_vars

\* ------------------------------------------------------------------------
\* Properties of concurrent competitor requests
\* ------------------------------------------------------------------------
\* C37: when an add request for a valid domain is answered with success on
\* a project of fewer than 9 competitors, and another add request for a
\* different valid domain of that project was answered with success while
\* this one was between its SELECT and its UPDATE, the domain of the other
\* request, which is in competitor_domains, is still there afterwards,
\* together with the domain of this one.
C37_ConcurrentAddsBothKept ==
  [][\A r \in Reqs, q \in Reqs :
       LET req == competitorReq[r]
       IN  (/\ AddCompetitorUpdate(r)
            /\ Len(req.currentCompetitors) < CompetitorLimit - 1
            /\ Len(projects[req.project].competitor_domains)
                 < CompetitorLimit
            /\ competitorRes[q] # None
            /\ competitorRes[q][1].op = "add"
            /\ competitorRes[q][1].status = 200
            /\ competitorRes[q][1].project = req.project
            /\ competitorRes[q][1].domain # req.domain
            /\ r \in competitorRes[q][1].during
            /\ ArrayIncludes(projects[req.project].competitor_domains,
                             competitorRes[q][1].domain))
             => /\ ArrayIncludes(projects'[req.project].competitor_domains,
                                 competitorRes[q][1].domain)
                /\ ArrayIncludes(projects'[req.project].competitor_domains,
                                 req.domain)]_vars

\* ------------------------------------------------------------------------
\* Properties of PATCH /api-integrations
\* ------------------------------------------------------------------------
\* C38: after a PATCH /api-integrations of an organization with at least
\* one field, the organization has a row that holds the value supplied in
\* every field supplied, and every other field of a row that existed
\* before keeps its value.
C38_PatchStoresSuppliedFields ==
  [][\A org \in Organizations, body \in IntegrationBodies :
       (PatchApiIntegrations(org, body) /\ Len(Updates(body)) > 0)
         => /\ org \in DOMAIN apiIntegrations'
            /\ \A f \in FieldSet :
                 IF body[f] # None
                   THEN apiIntegrations'[org][f] = body[f]
                 ELSE org \in DOMAIN apiIntegrations
                        => apiIntegrations'[org][f] = apiIntegrations[org][f]
    ]_vars

\* ------------------------------------------------------------------------
\* Properties of the alert routes
\* ------------------------------------------------------------------------
\* The rows of the other organizations are in the table after the step as
\* they were before it.
OthersKept(org) ==
  \A i \in 1..Len(alerts) :
    alerts[i].organization_id # org
      => \E k \in 1..Len(alerts') : alerts'[k] = alerts[i]

\* The request for an alert of another organization is answered not-found.
OthersNotFound(id, org) ==
  (\E i \in 1..Len(alerts) :
     alerts[i].id = id /\ alerts[i].organization_id # org)
    => alertRes'[1].status = 404

\* C39: MarkRead, MarkAllRead and DeleteAlert issued for an organization
\* leave every alert of another organization in the table as it was;
\* MarkRead and DeleteAlert on such an alert answer not-found; and no step
\* turns is_read of an alert from true to false.
C39_AlertsOfOtherOrganizations ==
  [][/\ \A org \in Organizations, id \in 1..MaxAlerts :
          /\ MarkRead(id, org, UserId)
               => OthersKept(org) /\ OthersNotFound(id, org)
          /\ DeleteAlert(id, org)
               => OthersKept(org) /\ OthersNotFound(id, org)
     /\ \A org \in Organizations,
           project \in {None, Some(ProjectId), Some(SecondProjectId)} :
          MarkAllRead(org, UserId, project) => OthersKept(org)
     /\ \A i \in 1..Len(alerts), k \in 1..Len(alerts') :
          (alerts[i].is_read /\ alerts'[k].id = alerts[i].id)
            => alerts'[k].is_read]_vars

\* C39, its case: MarkRead was just answered not-found for an alert of
\* another organization, which is in the table and unread, next to an
\* alert that has been read.
C39_Witness ==
  /\ alertRes # None
  /\ alertRes[1].op = "markRead"
  /\ alertRes[1].status = 404
  /\ \E i, k \in 1..Len(alerts) :
       /\ alerts[i].id = alertRes[1].id
       /\ alerts[i].organization_id # alertRes[1].organizationId
       /\ ~alerts[i].is_read
       /\ alerts[k].is_read

====
